---- MODULE Spec2Model ----
(***************************************************************************)
(* A model of pyspc_write_jdx: labeled data records (data_records.py),     *)
(* tabular data records (data_table_records.py) and the single-block and   *)
(* compound JDX documents built from them (jdx.py).                        *)
(*                                                                         *)
(* Text is modelled as TLA+ strings, one character per position.  Python   *)
(* values are tagged records: None, a str, or an int.                      *)
(***************************************************************************)
EXTENDS Integers, Sequences, FiniteSets, TLC

VARIABLES
    ldr,      \* a DataRecord instance (data_records.py)
    ret,      \* what the last call on ldr returned
    tbl,      \* a DataTableRecord instance (data_table_records.py)
    tret,     \* what the last call on tbl returned
    jdx,      \* a SimpleJDX instance (jdx.py)
    doc,      \* a CompoundJDX instance (jdx.py)
    jret,     \* what the last call on jdx or doc returned
    classes,  \* the classes of jdx.py with their data records and tables
    heap      \* the record and table objects of the classes and of documents

vars == <<ldr, ret, tbl, tret, jdx, doc, jret, classes, heap>>

-----------------------------------------------------------------------------
(* Python values *)

PyNone == [t |-> "none", s |-> "", n |-> 0]
PyStr(s) == [t |-> "str", s |-> s, n |-> 0]
PyInt(n) == [t |-> "int", s |-> "", n |-> n]

IsNone(v) == v.t = "none"

-----------------------------------------------------------------------------
(* Strings *)

\* s[i] of a 1-indexed string, "" outside of it
At(s, i) == IF i >= 1 /\ i <= Len(s) THEN SubSeq(s, i, i) ELSE ""

\* s[a-1:b] of Python (1-indexed a, b inclusive, both clipped to the string)
Slice(s, a, b) ==
    LET lo == IF a < 1 THEN 1 ELSE a
        hi == IF b > Len(s) THEN Len(s) ELSE b
    IN  IF lo > hi THEN "" ELSE SubSeq(s, lo, hi)

\* s[i:] (1-indexed i)
From(s, i) == Slice(s, i, Len(s))

RECURSIVE Rep(_, _)
\* s * n
Rep(s, n) ==
    IF n <= 0 THEN ""
    ELSE IF n = 1 THEN s
    ELSE LET h == Rep(s, n \div 2)
         IN  IF n % 2 = 0 THEN h \o h ELSE h \o h \o s

RECURSIVE Join(_, _)
\* sep.join(parts)
Join(sep, parts) ==
    IF parts = <<>> THEN ""
    ELSE IF Len(parts) = 1 THEN parts[1]
    ELSE parts[1] \o sep \o Join(sep, Tail(parts))

DigitChars == "0123456789"

RECURSIVE NatStr(_)
\* str(n) of a non-negative int
NatStr(n) ==
    IF n < 10 THEN At(DigitChars, n + 1)
    ELSE NatStr(n \div 10) \o At(DigitChars, (n % 10) + 1)

\* str(n) of an int
IntStr(n) == IF n < 0 THEN "-" \o NatStr(-n) ELSE NatStr(n)

\* f"{v}" of a value
ToStr(v) ==
    CASE v.t = "str" -> v.s
      [] v.t = "int" -> IntStr(v.n)
      [] OTHER -> "None"

-----------------------------------------------------------------------------
(* textwrap.wrap(text, width), with the defaults DataRecord.__str__ uses:   *)
(* expand_tabs, replace_whitespace, drop_whitespace, break_long_words and  *)
(* break_on_hyphens all true, no indents, no max_lines.                    *)

\* string.whitespace, without the tab (no text of the model holds one)
WhitespaceChars == {" ", "\n"}

\* the regex class [A-Z]
UpperChars ==
    {"A", "B", "C", "D", "E", "F", "G", "H", "I", "J", "K", "L", "M", "N",
     "O", "P", "Q", "R", "S", "T", "U", "V", "W", "X", "Y", "Z"}

\* the regex class [^\d\W]
LetterChars ==
    UpperChars \cup
    {"a", "b", "c", "d", "e", "f", "g", "h", "i", "j", "k", "l", "m", "n",
     "o", "p", "q", "r", "s", "t", "u", "v", "w", "x", "y", "z", "_"}

\* the regex class \w
WordChars ==
    LetterChars \cup {"0", "1", "2", "3", "4", "5", "6", "7", "8", "9"}

\* the regex class [\w!"'&.,?]
WordPunctChars == WordChars \cup {"!", "\"", "'", "&", ".", ",", "?"}

IsSpace(c) == c \in WhitespaceChars
IsLetter(c) == c \in LetterChars
IsWordChar(c) == c \in WordChars
IsWordPunct(c) == c \in WordPunctChars

RECURSIVE munge_whitespace(_)
\* TextWrapper._munge_whitespace: every whitespace character becomes a space
munge_whitespace(text) ==
    IF text = "" THEN ""
    ELSE IF Len(text) = 1 THEN (IF IsSpace(text) THEN " " ELSE text)
    ELSE LET h == Len(text) \div 2
         IN  munge_whitespace(Slice(text, 1, h))
             \o munge_whitespace(From(text, h + 1))

RECURSIVE SpaceRun(_, _)
\* length of the run of whitespace of t that starts at i
SpaceRun(t, i) == IF IsSpace(At(t, i)) THEN 1 + SpaceRun(t, i + 1) ELSE 0

RECURSIVE HyphenRun(_, _)
\* length of the run of hyphens of t that starts at i
HyphenRun(t, i) == IF At(t, i) = "-" THEN 1 + HyphenRun(t, i + 1) ELSE 0

\* the regex -{2,}(?=\w) matches at i
EmDashAt(t, i) == HyphenRun(t, i) >= 2 /\ IsWordChar(At(t, i + HyphenRun(t, i)))

\* the "hyphenated word" branch of wordsep_re: t[j] is a hyphen that has two
\* letters, or letter-hyphen-letter, before it, and letter, optional hyphen,
\* letter after it
HyphenBreakAt(t, j) ==
    /\ At(t, j) = "-"
    /\ \/ IsLetter(At(t, j - 2)) /\ IsLetter(At(t, j - 1))
       \/ IsLetter(At(t, j - 3)) /\ At(t, j - 2) = "-" /\ IsLetter(At(t, j - 1))
    /\ IsLetter(At(t, j + 1))
    /\ \/ IsLetter(At(t, j + 2))
       \/ At(t, j + 2) = "-" /\ IsLetter(At(t, j + 3))

\* the lazily extended word of wordsep_re may stop before t[j]: at a hyphen
\* of a hyphenated word, at the end of the word, or before an em-dash
WordStopAt(t, j) ==
    \/ HyphenBreakAt(t, j)
    \/ j > Len(t) \/ IsSpace(At(t, j))
    \/ IsWordPunct(At(t, j - 1)) /\ EmDashAt(t, j)

\* the "word" branch of wordsep_re, the word starting with t[i..j0-1]: the
\* first position after the word, which takes the hyphen it stops at
WordEnd(t, j0) ==
    LET j == CHOOSE k \in j0..(Len(t) + 1) :
                 WordStopAt(t, k) /\ \A m \in j0..(k - 1) : ~WordStopAt(t, m)
    IN  IF HyphenBreakAt(t, j) THEN j + 1 ELSE j

\* the first position after the match of wordsep_re that starts at i
ChunkEnd(t, i) ==
    IF IsSpace(At(t, i)) THEN i + SpaceRun(t, i)
    ELSE IF At(t, i) = "-" /\ IsWordPunct(At(t, i - 1)) /\ EmDashAt(t, i)
         THEN i + HyphenRun(t, i)
    ELSE WordEnd(t, i + 1)

RECURSIVE SplitFrom(_, _)
SplitFrom(t, i) ==
    IF i > Len(t) THEN <<>>
    ELSE LET e == ChunkEnd(t, i)
         IN  <<Slice(t, i, e - 1)>> \o SplitFrom(t, e)

\* TextWrapper._split: the chunks wordsep_re.split cuts the text into
split(text) == SplitFrom(text, 1)

\* chunk.strip() == ''
IsBlank(chunk) == \A i \in 1..Len(chunk) : IsSpace(At(chunk, i))

RECURSIVE SumLen(_)
SumLen(chunks) == IF chunks = <<>> THEN 0 ELSE Len(chunks[1]) + SumLen(Tail(chunks))

RECURSIVE Fit(_, _, _)
\* the inner loop of _wrap_chunks: how many leading chunks fit in width
Fit(chunks, cur_len, width) ==
    IF chunks = <<>> THEN 0
    ELSE IF cur_len + Len(chunks[1]) <= width
         THEN 1 + Fit(Tail(chunks), cur_len + Len(chunks[1]), width)
    ELSE 0

\* chunk.rfind(c, 0, stop), 0-indexed, -1 when there is none
RFind(chunk, c, stop) ==
    LET found == {i \in 1..stop : At(chunk, i) = c}
    IN  IF found = {} THEN -1
        ELSE (CHOOSE i \in found : \A k \in found : k <= i) - 1

\* _handle_long_word, were break_long_words off: the whole chunk is taken
handle_long_word_whole(chunk, space_left) == Len(chunk)

\* TextWrapper._handle_long_word: how many characters of the chunk, which is
\* wider than any line, go on the current line
handle_long_word(chunk, space_left) ==
    LET hyphen == IF Len(chunk) > space_left
                    THEN RFind(chunk, "-", space_left) ELSE -1
    IN  IF hyphen > 0 /\ \E i \in 1..hyphen : At(chunk, i) # "-"
        THEN hyphen + 1
        ELSE space_left

RECURSIVE wrap_chunks_hard(_, _, _)
\* _wrap_chunks, were a chunk cut whenever it does not fit the rest of the line
wrap_chunks_hard(chunks, lines, width) ==
    IF chunks = <<>> THEN lines
    ELSE
    LET c0 == IF lines # <<>> /\ IsBlank(chunks[1]) THEN Tail(chunks) ELSE chunks
        k == Fit(c0, 0, width)
        fitted == SubSeq(c0, 1, k)
        c1 == SubSeq(c0, k + 1, Len(c0))
        long == c1 # <<>> /\ Len(c1[1]) > width - SumLen(fitted)
        end == IF long THEN handle_long_word(c1[1], width - SumLen(fitted)) ELSE 0
        cur1 == IF long THEN Append(fitted, Slice(c1[1], 1, end)) ELSE fitted
        c2 == IF long THEN <<From(c1[1], end + 1)>> \o Tail(c1) ELSE c1
        cur2 == IF cur1 # <<>> /\ IsBlank(cur1[Len(cur1)])
                THEN SubSeq(cur1, 1, Len(cur1) - 1) ELSE cur1
        lines2 == IF cur2 # <<>> THEN Append(lines, Join("", cur2)) ELSE lines
    IN  wrap_chunks_hard(c2, lines2, width)

RECURSIVE wrap_chunks(_, _, _)
\* TextWrapper._wrap_chunks: the lines, given the chunks left and the lines
\* made so far
wrap_chunks(chunks, lines, width) ==
    IF chunks = <<>> THEN lines
    ELSE
    LET c0 == IF lines # <<>> /\ IsBlank(chunks[1]) THEN Tail(chunks) ELSE chunks
        k == Fit(c0, 0, width)
        fitted == SubSeq(c0, 1, k)
        c1 == SubSeq(c0, k + 1, Len(c0))
        long == c1 # <<>> /\ Len(c1[1]) > width
        end == IF long THEN handle_long_word(c1[1], width - SumLen(fitted)) ELSE 0
        cur1 == IF long THEN Append(fitted, Slice(c1[1], 1, end)) ELSE fitted
        c2 == IF long THEN <<From(c1[1], end + 1)>> \o Tail(c1) ELSE c1
        cur2 == IF cur1 # <<>> /\ IsBlank(cur1[Len(cur1)])
                THEN SubSeq(cur1, 1, Len(cur1) - 1) ELSE cur1
        lines2 == IF cur2 # <<>> THEN Append(lines, Join("", cur2)) ELSE lines
    IN  wrap_chunks(c2, lines2, width)

\* textwrap.wrap(text, width=width)
wrap(text, width) == wrap_chunks(split(munge_whitespace(text)), <<>>, width)

-----------------------------------------------------------------------------
(* data_records.py: validators *)

\* the outcome of a call: it returns, or raises an exception whose str() is msg
Returned == [raised |-> FALSE, msg |-> ""]
Raised(m) == [raised |-> TRUE, msg |-> m]

RECURSIVE QuoteAll(_)
QuoteAll(items) ==
    IF items = <<>> THEN <<>>
    ELSE <<"'" \o items[1] \o "'">> \o QuoteAll(Tail(items))

\* f"{items}" of a list of str
ListRepr(items) == "[" \o Join(", ", QuoteAll(items)) \o "]"

\* value in choices
InChoices(value, items) ==
    value.t = "str" /\ \E i \in 1..Len(items) : items[i] = value.s

validate_required(instance) ==
    IF IsNone(instance.value)
    THEN Raised("DATA-LABEL '##" \o instance.label \o "=' is required.")
    ELSE Returned

\* validate_choices without its test of an absent value
validate_choices_on_absent(instance) ==
    IF instance.choices.given /\ ~InChoices(instance.value, instance.choices.items)
    THEN Raised("Unexpected value for DATA-LABEL '##" \o instance.label \o "='. "
                \o "Available values " \o ListRepr(instance.choices.items) \o ".")
    ELSE Returned

validate_choices(instance) ==
    IF /\ instance.choices.given
       /\ ~IsNone(instance.value)
       /\ ~InChoices(instance.value, instance.choices.items)
    THEN Raised("Unexpected value for DATA-LABEL '##" \o instance.label \o "='. "
                \o "Available values " \o ListRepr(instance.choices.items) \o ".")
    ELSE Returned

allowed_formats ==
    <<"%Y/%m/%d", "%Y/%m/%d %H:%M", "%Y/%m/%d %H:%M:%S",
      "%Y/%m/%d %H:%M:%S.%f", "%Y/%m/%d %H:%M:%S.%f%z">>

\* datetime.datetime.strptime(...) where datetime is the class imported by
\* "from datetime import datetime": the attribute lookup raises AttributeError
\* for every value and format, and the except clause passes
StrptimeReturns(value, format) == FALSE

validate_date(instance) ==
    IF \E i \in 1..Len(allowed_formats) :
           StrptimeReturns(instance.value, allowed_formats[i])
    THEN Returned
    ELSE Raised("Unexpected date-time format. Allowed formats: "
                \o ListRepr(allowed_formats))

\* the custom rule of test_custom_validation: len(dr.value) < 10 raises
dummy_validator(instance) ==
    CASE instance.value.t = "none" ->
             Raised("object of type 'NoneType' has no len()")
      [] instance.value.t = "int" ->
             Raised("object of type 'int' has no len()")
      [] OTHER ->
             IF Len(instance.value.s) < 10 THEN Raised("Value is too short")
             ELSE Returned

\* the context a rule is called with: a dict of the block's values, or the
\* bound method values_dict itself
Mapping(map) == [t |-> "dict", map |-> map]
BoundMethod(name) == [t |-> "method", name |-> name]

\* a rule based on the context of the JDX, as the validators of a DataRecord
\* are documented: block_values["data_type"] is None raises
context_validator(instance, block_values) ==
    CASE block_values.t = "dict" ->
             IF IsNone(block_values.map["data_type"])
             THEN Raised("DATA TYPE is needed")
             ELSE Returned
      [] block_values.t = "method" ->
             Raised("'method' object is not subscriptable")
      [] OTHER ->
             Raised("'NoneType' object is not subscriptable")

\* validator(self, block_values)
CallValidator(validator, instance, block_values) ==
    CASE validator = "validate_required" -> validate_required(instance)
      [] validator = "validate_choices" -> validate_choices(instance)
      [] validator = "validate_date" -> validate_date(instance)
      [] validator = "dummy_validator" -> dummy_validator(instance)
      [] validator = "context_validator" -> context_validator(instance, block_values)

-----------------------------------------------------------------------------
(* data_records.py: DataRecord *)

NoChoices == [given |-> FALSE, items |-> <<>>]
Choices(items) == [given |-> TRUE, items |-> items]

PrependBuiltins(choices, validators, required) ==
    LET v1 == IF choices.given THEN <<"validate_choices">> \o validators
              ELSE validators
    IN  IF required THEN <<"validate_required">> \o v1 ELSE v1

\* DataRecord.__init__
DataRecordInit(label, format, choices, validators, required, comment) ==
    [label |-> label, format |-> format, choices |-> choices,
     required |-> required, value |-> PyNone, comment |-> comment,
     validators |-> PrependBuiltins(choices, validators, required)]

\* the loop of DataRecord.validate, were it to stop at the first failure
RunValidatorsUntilFailure(validators, instance, block_values) ==
    LET failing == {i \in 1..Len(validators) :
                       CallValidator(validators[i], instance, block_values).raised}
    IN  IF failing = {} THEN <<>>
        ELSE <<CallValidator(validators[CHOOSE i \in failing :
                                 \A k \in failing : i <= k],
                             instance, block_values).msg>>

RECURSIVE RunValidators(_, _, _)
\* the loop of DataRecord.validate
RunValidators(validators, instance, block_values) ==
    IF validators = <<>> THEN <<>>
    ELSE LET r == CallValidator(validators[1], instance, block_values)
         IN  (IF r.raised THEN <<r.msg>> ELSE <<>>)
             \o RunValidators(Tail(validators), instance, block_values)

\* DataRecord.validate
DataRecord_validate(self, block_values) ==
    RunValidators(self.validators, self, block_values)

WrapWidth == 80

\* the lines DataRecord.__str__ joins
DataRecord_lines(self) ==
    LET head == "##" \o self.label \o "="
        wrapped == IF ~IsNone(self.value)
                   THEN wrap(head \o " " \o ToStr(self.value), WrapWidth)
                   ELSE <<head>>
    IN  IF ~IsNone(self.comment)
        THEN <<wrapped[1] \o "  $$ " \o ToStr(self.comment)>> \o Tail(wrapped)
        ELSE wrapped

\* DataRecord.__str__
DataRecord_str(self) == Join("\n", DataRecord_lines(self))

-----------------------------------------------------------------------------
(* Calls on one DataRecord *)

MaxWords == 2
LongLen == 85
FillWords == 12

\* the words the values are made of: short words, a choice, a run of words
\* that nearly fills a line, a hyphenated word, an em-dash, a token longer
\* than a line, a line break
Pieces ==
    {"short", "A", Rep("word ", FillWords) \o "word", "well-known",
     "aaaaa--bbbb", Rep("x", LongLen), "ab-" \o Rep("y", LongLen) \o "\nz"}

RECURSIVE WordSeqs(_)
WordSeqs(n) ==
    IF n = 0 THEN {<<>>}
    ELSE WordSeqs(n - 1)
         \cup {Append(w, p) : w \in {x \in WordSeqs(n - 1) : Len(x) = n - 1},
                              p \in Pieces}

\* the values a rendered record is given
StrValues == {PyStr(Join(" ", w)) : w \in WordSeqs(MaxWords)} \cup {PyNone, PyInt(5)}

\* the values a validated record is given
ValidateValues ==
    {PyNone, PyInt(5), PyStr(""), PyStr("A"), PyStr("C"), PyStr("a long value")}

RecLabels == {"TITLE", "DATA TYPE"}
RecChoices == {NoChoices, Choices(<<"A", "B">>)}
RecCustom == {<<>>, <<"dummy_validator">>, <<"dummy_validator", "validate_date">>,
              <<"validate_date", "dummy_validator">>}
RecComments == {PyNone, PyStr("comment")}

NoRet == [op |-> "none", text |-> "", errors |-> <<>>]
NoTable == [dimensions |-> <<>>]
NoBlock == [cls |-> "none"]
NoCall == [op |-> "none", raised |-> FALSE]
NoClasses == <<>>
NoHeap == <<>>

\* ldr.value = value
SetValue(value) ==
    /\ ldr' = [ldr EXCEPT !.value = value]
    /\ ret' = NoRet
    /\ UNCHANGED <<tbl, tret, jdx, doc, jret, classes, heap>>

\* ldr.comment = comment
SetComment(comment) ==
    /\ ldr.comment # comment
    /\ ldr' = [ldr EXCEPT !.comment = comment]
    /\ ret' = NoRet
    /\ UNCHANGED <<tbl, tret, jdx, doc, jret, classes, heap>>

\* str(ldr)
CallStr ==
    /\ ret' = [op |-> "str", text |-> DataRecord_str(ldr), errors |-> <<>>]
    /\ UNCHANGED <<ldr, tbl, tret, jdx, doc, jret, classes, heap>>

\* ldr.validate(None)
CallValidate ==
    /\ ret' = [op |-> "validate", text |-> "",
               errors |-> DataRecord_validate(ldr, PyNone)]
    /\ UNCHANGED <<ldr, tbl, tret, jdx, doc, jret, classes, heap>>

\* a record as test_str makes it, rendered with and without a comment
StrInit ==
    /\ \E label \in RecLabels :
           ldr = DataRecordInit(label, "STRING", NoChoices, <<>>, FALSE, PyNone)
    /\ ret = NoRet
    /\ tbl = NoTable
    /\ tret = NoRet
    /\ jdx = NoBlock
    /\ doc = NoBlock
    /\ jret = NoCall
    /\ classes = NoClasses
    /\ heap = NoHeap

StrNext ==
    \/ \E value \in StrValues : SetValue(value)
    \/ \E comment \in RecComments : SetComment(comment)
    \/ CallStr

SpecStr == StrInit /\ [][StrNext]_vars

\* a record with any of the rule sets, validated with and without a value
ValidateInit ==
    /\ \E label \in RecLabels, choices \in RecChoices, validators \in RecCustom,
          required \in BOOLEAN :
           ldr = DataRecordInit(label, "STRING", choices, validators, required, PyNone)
    /\ ret = NoRet
    /\ tbl = NoTable
    /\ tret = NoRet
    /\ jdx = NoBlock
    /\ doc = NoBlock
    /\ jret = NoCall
    /\ classes = NoClasses
    /\ heap = NoHeap

ValidateNext ==
    \/ \E value \in ValidateValues : SetValue(value)
    \/ CallValidate

SpecValidate == ValidateInit /\ [][ValidateNext]_vars

-----------------------------------------------------------------------------
(* Properties of DataRecord.validate *)

\* what makes each rule fail, as the rule's own documentation states it
RuleFails(rule, instance) ==
    CASE rule = "validate_required" -> instance.value = PyNone
      [] rule = "validate_choices" ->
             /\ instance.value # PyNone
             /\ \A i \in 1..Len(instance.choices.items) :
                    PyStr(instance.choices.items[i]) # instance.value
      [] rule = "dummy_validator" ->
             instance.value.t # "str" \/ Len(instance.value.s) < 10
      [] rule = "validate_date" -> TRUE

\* the rules of a record in the claimed order: required, choices, custom
RulesInOrder(instance, custom) ==
    (IF instance.required THEN <<"validate_required">> ELSE <<>>)
    \o (IF instance.choices.given THEN <<"validate_choices">> ELSE <<>>)
    \o custom

\* C5: validate runs the required rule (if required), the choice rule (if
\* choices are set) and then the custom rules in declared order; a failing rule
\* does not stop the later ones, and the result holds exactly one message per
\* failing rule, in rule order.
C5_ValidateRunsEveryRule ==
    /\ \E custom \in RecCustom : ldr.validators = RulesInOrder(ldr, custom)
    /\ ret.op = "validate" =>
           LET failing == SelectSeq(ldr.validators, LAMBDA r : RuleFails(r, ldr))
           IN  /\ Len(ret.errors) = Len(failing)
               /\ \A k \in 1..Len(failing) :
                      ret.errors[k] = CallValidator(failing[k], ldr, PyNone).msg

\* a validation in which a failing rule is followed by another failing rule
C5_Witness ==
    /\ ret.op = "validate"
    /\ ldr.validators = <<"validate_choices", "dummy_validator", "validate_date">>
    /\ Len(ret.errors) = 3

\* C6: a required field with a choice set reports, with no value, exactly the
\* required error naming its label, and with a value outside the choice set
\* exactly the choice error listing the allowed set.
C6_RequiredThenChoice ==
    (/\ ret.op = "validate"
     /\ ldr.validators = <<"validate_required", "validate_choices">>)
    => /\ ldr.value = PyNone =>
              ret.errors = <<"DATA-LABEL '##" \o ldr.label \o "=' is required.">>
       /\ (ldr.value # PyNone /\ ldr.value \notin {PyStr("A"), PyStr("B")}) =>
              ret.errors =
                  <<"Unexpected value for DATA-LABEL '##" \o ldr.label
                    \o "='. Available values ['A', 'B'].">>

\* a required field with choices, validated with a value outside the choices
C6_Witness ==
    /\ ret.op = "validate"
    /\ ldr.validators = <<"validate_required", "validate_choices">>
    /\ ldr.value = PyStr("C")
    /\ Len(ret.errors) = 1

\* a required field with choices, validated with no value
C6_WitnessAbsent ==
    /\ ret.op = "validate"
    /\ ldr.validators = <<"validate_required", "validate_choices">>
    /\ ldr.value = PyNone
    /\ Len(ret.errors) = 1

-----------------------------------------------------------------------------
(* Properties of DataRecord.__str__ *)

RECURSIVE SplitLines(_)
\* text.split("\n")
SplitLines(text) ==
    LET breaks == {i \in 1..Len(text) : At(text, i) = "\n"}
    IN  IF breaks = {} THEN <<text>>
        ELSE LET b == CHOOSE i \in breaks : \A k \in breaks : i <= k
             IN  <<Slice(text, 1, b - 1)>> \o SplitLines(From(text, b + 1))

\* the text a record's value is wrapped from, line breaks read as spaces
RecText(instance) ==
    munge_whitespace("##" \o instance.label \o "= " \o ToStr(instance.value))

\* the rendered lines of a record without the inline comment of the first
RecLinesBare(instance, text) ==
    LET lines == SplitLines(text)
        suffix == IF instance.comment = PyNone THEN 0
                  ELSE Len("  $$ " \o instance.comment.s)
    IN  <<Slice(lines[1], 1, Len(lines[1]) - suffix)>> \o Tail(lines)

\* the whitespace-free tokens of t, as <<first, last>> positions
Tokens(t) ==
    LET firsts == {i \in 1..Len(t) : At(t, i) # " " /\ At(t, i - 1) \in {"", " "}}
        lasts == {j \in 1..Len(t) : At(t, j) # " " /\ At(t, j + 1) \in {"", " "}}
    IN  {<<i, CHOOSE j \in lasts : j >= i /\ \A k \in lasts : k >= i => j <= k>> :
            i \in firsts}

\* the token of t appears whole on one of the lines
AppearsWhole(t, tok, lines) ==
    \E k \in 1..Len(lines) : \E o \in 1..(Len(lines[k]) - (tok[2] - tok[1])) :
        SubSeq(lines[k], o, o + (tok[2] - tok[1])) = SubSeq(t, tok[1], tok[2])

RECURSIVE LineStarts(_, _, _)
\* where each line starts in t, the whitespace between two lines skipped
LineStarts(t, lines, o) ==
    IF lines = <<>> THEN <<o>>
    ELSE LET e == o + Len(lines[1])
         IN  <<o>> \o LineStarts(t, Tail(lines), e + SpaceRun(t, e))

-----------------------------------------------------------------------------
(* data_table_records.py: DataTableRecord and its subclasses *)


RECURSIVE Chars(_)
\* list(s)
Chars(s) == IF s = "" THEN <<>> ELSE <<At(s, 1)>> \o Chars(From(s, 2))

\* the regex [A-Z]{2,} matches the whole of u
IsUpperRun(u) == Len(u) >= 2 /\ \A i \in 1..Len(u) : At(u, i) \in UpperChars

\* TupleDataTableRecord.__init__: the dimensions the regex
\* ^\(([A-Z]{2,})\.\.[A-Z]{2,}\)$ takes from the format, <<>> when the format
\* does not match
TupleDimensions(format) ==
    LET dots == {i \in 1..Len(format) : At(format, i) = "."}
        d == IF dots = {} THEN 0 ELSE CHOOSE i \in dots : \A k \in dots : i <= k
        first == Slice(format, 2, d - 1)
    IN  IF /\ d > 0
           /\ At(format, 1) = "(" /\ At(format, Len(format)) = ")"
           /\ At(format, d + 1) = "."
           /\ IsUpperRun(first)
           /\ IsUpperRun(Slice(format, d + 2, Len(format) - 1))
        THEN Chars(first)
        ELSE <<>>

\* SequenceDataTableRecord.__init__: the dimensions the regex
\* ^\(([A-Z])\+\+\(([A-Z])\.\.[A-Z]\)\)$ takes from the format
SequenceDimensions(format) ==
    IF /\ Len(format) = 11
       /\ At(format, 2) \in UpperChars
       /\ At(format, 6) \in UpperChars
       /\ At(format, 9) \in UpperChars
       /\ Slice(format, 1, 1) \o Slice(format, 3, 5) \o Slice(format, 7, 8)
              \o Slice(format, 10, 11) = "(++(..))"
    THEN <<At(format, 2), At(format, 6)>>
    ELSE <<>>

\* DataTableRecord._data: None, a list of lists, or deleted
NoData == [st |-> "none", rows |-> <<>>]
Data(rows) == [st |-> "list", rows |-> rows]
DeletedData == [st |-> "deleted", rows |-> <<>>]

\* what reading self.data raises when it is no list
DataError(self) == IF self.data.st = "deleted" THEN "AttributeError" ELSE "TypeError"

\* DataTableRecord.__init__, after the subclass has parsed the format
DataTableRecordInit(kind, label, format, decimal_places, comment, single_column) ==
    [kind |-> kind, label |-> label, format |-> format,
     dimensions |-> IF kind = "tuple" THEN TupleDimensions(format)
                    ELSE SequenceDimensions(format),
     decimal_places |-> decimal_places, comment |-> comment,
     single_column |-> single_column, data |-> NoData]

\* DataTableRecord.ndimensions
ndimensions(self) == Len(self.dimensions)

\* the data setter accepts any list whose length is the table's
data_setter_any_length(self, data) ==
    IF ~data.islist
    THEN Raised("The data must be a list of " \o IntStr(ndimensions(self)) \o " lists")
    ELSE IF Cardinality({Len(data.rows[i]) : i \in 1..Len(data.rows)}) # 1
    THEN Raised("The sub-lists of the data have different size")
    ELSE Returned

\* the data setter without its test of the sub-lists' sizes
data_setter_any_sizes(self, data) ==
    IF ~(data.islist /\ Len(data.rows) = ndimensions(self))
    THEN Raised("The data must be a list of " \o IntStr(ndimensions(self)) \o " lists")
    ELSE Returned

\* DataTableRecord.data (setter): what the checks of the assigned value do
data_setter(self, data) ==
    IF ~(data.islist /\ Len(data.rows) = ndimensions(self))
    THEN Raised("The data must be a list of " \o IntStr(ndimensions(self)) \o " lists")
    ELSE IF Cardinality({Len(data.rows[i]) : i \in 1..Len(data.rows)}) # 1
    THEN Raised("The sub-lists of the data have different size")
    ELSE Returned

\* f"{x:.{decimal_places}f}" of an int
FormatFixed(x, decimal_places) ==
    IntStr(x) \o (IF decimal_places > 0 THEN "." \o Rep("0", decimal_places) ELSE "")

\* s.rjust(width)
RJust(s, width) == Rep(" ", width - Len(s)) \o s

Min(S) == CHOOSE x \in S : \A y \in S : x <= y
Max(S) == CHOOSE x \in S : \A y \in S : x >= y

\* len(list(zip(*rows)))
ZipLen(rows) == IF rows = <<>> THEN 0 ELSE Min({Len(rows[d]) : d \in 1..Len(rows)})

\* DataTableRecord._str_first_line
str_first_line(self) ==
    LET first_line == "##" \o self.label \o "= " \o self.format
    IN  IF self.comment # PyNone
        THEN first_line \o "  $$ " \o ToStr(self.comment)
        ELSE first_line

\* DataTableRecord._str_single_column_data_lines(sep)
str_single_column_data_lines(self, sep) ==
    LET rows == self.data.rows
    IN  [i \in 1..ZipLen(rows) |->
            Join(sep, [d \in 1..Len(rows) |->
                          FormatFixed(rows[d][i], self.decimal_places)])]

\* the first loop of TupleDataTableRecord._str_sequential_data_lines: each
\* dimension's values formatted and padded to the widest of the dimension
formatted_data(self) ==
    LET rows == self.data.rows
    IN  [d \in 1..Len(rows) |->
            LET formatted_v == [i \in 1..Len(rows[d]) |->
                                   FormatFixed(rows[d][i], self.decimal_places)]
                max_length == Max({Len(formatted_v[i]) : i \in 1..Len(formatted_v)})
            IN  [i \in 1..Len(formatted_v) |-> RJust(formatted_v[i], max_length)]]

\* formatted_pairs of TupleDataTableRecord._str_sequential_data_lines
formatted_pairs(self) ==
    LET fd == formatted_data(self)
    IN  [i \in 1..ZipLen(fd) |-> Join(", ", [d \in 1..Len(fd) |-> fd[d][i]])]

LineWidth == 80

RECURSIVE PackPairsNoWrap(_, _, _)
\* the packing loop, were a line never ended
PackPairsNoWrap(pairs, current_line, output_list) ==
    IF pairs = <<>> THEN Append(output_list, current_line)
    ELSE PackPairsNoWrap(Tail(pairs), current_line \o " : " \o pairs[1], output_list)

RECURSIVE PackPairsSepUncounted(_, _, _)
\* the packing loop, were the separator left out of the new length
PackPairsSepUncounted(pairs, current_line, output_list) ==
    IF pairs = <<>> THEN Append(output_list, current_line)
    ELSE LET sep == " : "
             new_length == Len(current_line) + Len(pairs[1])
         IN  IF new_length > LineWidth
             THEN PackPairsSepUncounted(Tail(pairs), pairs[1],
                                        Append(output_list, current_line))
             ELSE PackPairsSepUncounted(Tail(pairs), current_line \o sep \o pairs[1],
                                        output_list)

RECURSIVE PackPairs(_, _, _)
\* the packing loop of TupleDataTableRecord._str_sequential_data_lines
PackPairs(pairs, current_line, output_list) ==
    IF pairs = <<>> THEN Append(output_list, current_line)
    ELSE LET sep == " : "
             new_length == Len(current_line) + Len(pairs[1]) + Len(sep)
         IN  IF new_length > LineWidth
             THEN PackPairs(Tail(pairs), pairs[1], Append(output_list, current_line))
             ELSE PackPairs(Tail(pairs), current_line \o sep \o pairs[1], output_list)

\* the outcome of a call that returns lines or text
Lines(lines) == [raised |-> FALSE, msg |-> "", lines |-> lines]
Failed(m) == [raised |-> TRUE, msg |-> m, lines |-> <<>>]

\* _str_sequential_data_lines: NotImplementedError in the base class and in
\* SequenceDataTableRecord; the packed lines of a TupleDataTableRecord
str_sequential_data_lines(self) ==
    IF self.kind # "tuple" THEN Failed("NotImplementedError")
    ELSE IF self.data.st # "list" THEN Failed(DataError(self))
    ELSE IF \E d \in 1..Len(self.data.rows) : self.data.rows[d] = <<>>
    THEN Failed("ValueError")
    ELSE LET pairs == formatted_pairs(self)
         IN  Lines(PackPairs(Tail(pairs), pairs[1], <<>>))

\* DataTableRecord._str_data_lines
str_data_lines(self) ==
    IF self.single_column
    THEN IF self.data.st # "list" THEN Failed(DataError(self))
         ELSE Lines(str_single_column_data_lines(
                        self, IF self.kind = "tuple" THEN ", " ELSE " "))
    ELSE str_sequential_data_lines(self)

\* DataTableRecord.__repr__
DataTable_repr(self) ==
    LET r == str_data_lines(self)
    IN  IF r.raised THEN [raised |-> TRUE, msg |-> r.msg, text |-> ""]
        ELSE [raised |-> FALSE, msg |-> "",
              text |-> Join("\n", <<str_first_line(self)>> \o r.lines)]

PreviewLimit == 3

\* __str__, were three data lines enough for the preview
DataTable_str_from_three(self) ==
    LET r == str_data_lines(self)
    IN  IF r.raised THEN [raised |-> TRUE, msg |-> r.msg, text |-> ""]
        ELSE IF Len(r.lines) >= PreviewLimit
        THEN [raised |-> FALSE, msg |-> "",
              text |-> Join("\n", <<str_first_line(self), r.lines[1], "$$etc...",
                                    r.lines[Len(r.lines)]>>)]
        ELSE DataTable_repr(self)

\* DataTableRecord.__str__
DataTable_str(self) ==
    LET r == str_data_lines(self)
    IN  IF r.raised THEN [raised |-> TRUE, msg |-> r.msg, text |-> ""]
        ELSE IF Len(r.lines) > PreviewLimit
        THEN [raised |-> FALSE, msg |-> "",
              text |-> Join("\n", <<str_first_line(self), r.lines[1], "$$etc...",
                                    r.lines[Len(r.lines)]>>)]
        ELSE DataTable_repr(self)

-----------------------------------------------------------------------------
(* Calls on one DataTableRecord *)

MaxPoints == 5
MaxOuter == 3
WideDecimals == 20
WiderDecimals == 40

DecimalPlaces == {0, 4, WideDecimals, WiderDecimals}

TableFormats ==
    {<<"tuple", "XYPOINTS", "(XY..XY)">>, <<"tuple", "PEAK TABLE", "(XYZ..XYZ)">>,
     <<"sequence", "XYDATA", "(X++(Y..Y))">>}

\* the sequences a matrix is made of: 1, 2, .. and -10, 1234, -10, ..
Sequence(ascending, n) ==
    [i \in 1..n |-> IF ascending THEN i ELSE IF i % 2 = 1 THEN -10 ELSE 1234]

\* the values assigned to data: lists of one to MaxOuter sequences of up to
\* MaxPoints numbers, of the two kinds in turn, the last sequence possibly one
\* shorter, and None
TableArgs ==
    {[islist |-> TRUE,
      rows |-> [d \in 1..outer |->
                   Sequence((d % 2 = 1) = first,
                            IF d = outer /\ ragged /\ n > 0 THEN n - 1 ELSE n)]] :
        outer \in 1..MaxOuter, n \in 0..MaxPoints, ragged \in BOOLEAN,
        first \in BOOLEAN}
    \cup {[islist |-> FALSE, rows |-> <<>>]}

NoArg == [islist |-> FALSE, rows |-> <<>>]
NoTableRet == [op |-> "none", raised |-> FALSE, msg |-> "", text |-> "", arg |-> NoArg]

TableInit ==
    /\ \E f \in TableFormats, decimal_places \in DecimalPlaces,
          single_column \in BOOLEAN :
           tbl = DataTableRecordInit(f[1], f[2], f[3], decimal_places, PyNone,
                                     single_column)
    /\ tbl.dimensions # <<>>
    /\ tret = NoTableRet
    /\ ldr = DataRecordInit("", "TEXT", NoChoices, <<>>, FALSE, PyNone)
    /\ ret = NoRet
    /\ jdx = NoBlock
    /\ doc = NoBlock
    /\ jret = NoCall
    /\ classes = NoClasses
    /\ heap = NoHeap

\* tbl.data = data
SetData(data) ==
    LET r == data_setter(tbl, data)
    IN  /\ tbl' = IF r.raised THEN tbl ELSE [tbl EXCEPT !.data = Data(data.rows)]
        /\ tret' = [op |-> "set_data", raised |-> r.raised, msg |-> r.msg,
                    text |-> "", arg |-> data]
        /\ UNCHANGED <<ldr, ret, jdx, doc, jret, classes, heap>>

\* del tbl.data
DelData ==
    /\ tbl.data.st # "deleted"
    /\ tbl' = [tbl EXCEPT !.data = DeletedData]
    /\ tret' = [NoTableRet EXCEPT !.op = "del_data"]
    /\ UNCHANGED <<ldr, ret, jdx, doc, jret, classes, heap>>

\* tbl.single_column = single_column
SetSingleColumn(single_column) ==
    /\ tbl.single_column # single_column
    /\ tbl' = [tbl EXCEPT !.single_column = single_column]
    /\ tret' = NoTableRet
    /\ UNCHANGED <<ldr, ret, jdx, doc, jret, classes, heap>>

\* str(tbl)
CallTableStr ==
    /\ tret' = [op |-> "str", arg |-> NoArg] @@ DataTable_str(tbl)
    /\ UNCHANGED <<tbl, ldr, ret, jdx, doc, jret, classes, heap>>

\* repr(tbl)
CallTableRepr ==
    /\ tret' = [op |-> "repr", arg |-> NoArg] @@ DataTable_repr(tbl)
    /\ UNCHANGED <<tbl, ldr, ret, jdx, doc, jret, classes, heap>>

TableNext ==
    \/ \E data \in TableArgs : SetData(data)
    \/ DelData
    \/ \E single_column \in BOOLEAN : SetSingleColumn(single_column)
    \/ CallTableStr
    \/ CallTableRepr

SpecTable == TableInit /\ [][TableNext]_vars

-----------------------------------------------------------------------------
(* Properties of the data tables *)

\* the data lines of a rendered table: the lines after the header
DataLines(text) == Tail(SplitLines(text))

PackedRender ==
    /\ tret.op = "repr" /\ ~tret.raised
    /\ tbl.kind = "tuple" /\ ~tbl.single_column

\* The statement of C2 as the specification makes it: in packed mode every
\* data line of a tuple table is at most 80 characters long.
C2_EveryPackedLineWithin80 ==
    PackedRender =>
        \A k \in 1..Len(DataLines(tret.text)) :
            Len(DataLines(tret.text)[k]) <= LineWidth

\* C2 (amended): in packed mode every data line of a tuple table is at most 80
\* characters long, unless it consists of a single point-group that is itself
\* longer than 80 characters: a point-group is never split.
C2_PackedLineWithin80OrOneGroup ==
    PackedRender =>
        LET lines == DataLines(tret.text)
            pairs == formatted_pairs(tbl)
        IN  \A k \in 1..Len(lines) :
                \/ Len(lines[k]) <= LineWidth
                \/ \E i \in 1..Len(pairs) : lines[k] = pairs[i]

\* a packed render that wraps: several lines, the first of several point-groups
C2_Witness ==
    /\ PackedRender
    /\ Len(DataLines(tret.text)) >= 2
    /\ Len(DataLines(tret.text)[1]) > Len(formatted_pairs(tbl)[1])

RECURSIVE SplitAt(_, _)
\* text.split(sep)
SplitAt(text, sep) ==
    IF \A i \in 1..Len(text) : Slice(text, i, i + Len(sep) - 1) # sep THEN <<text>>
    ELSE LET i == Min({k \in 1..Len(text) : Slice(text, k, k + Len(sep) - 1) = sep})
         IN  <<Slice(text, 1, i - 1)>> \o SplitAt(From(text, i + Len(sep)), sep)

RECURSIVE Concat(_)
\* the lists of a list, one after the other
Concat(lists) == IF lists = <<>> THEN <<>> ELSE lists[1] \o Concat(Tail(lists))

\* the point-group of point i: the values of the point in the dimensions,
\* with the decimal places of the table, each as wide as the widest of its
\* dimension, joined by ", "
PointGroup(self, i) ==
    LET Wide(d) == Max({Len(FormatFixed(self.data.rows[d][k], self.decimal_places)) :
                           k \in 1..Len(self.data.rows[d])})
    IN  Join(", ", [d \in 1..Len(self.data.rows) |->
                       RJust(FormatFixed(self.data.rows[d][i], self.decimal_places),
                             Wide(d))])

\* the groups of the data lines, line by line, are the point-groups in
\* order, all of one length, and a line ends where the next group and the
\* separator would make it longer than 80 characters, and only there
PackedInOrder(self, groups) ==
    /\ Concat(groups) = [i \in 1..Len(self.data.rows[1]) |-> PointGroup(self, i)]
    /\ \A k \in 1..Len(groups) : \A j \in 1..Len(groups[k]) :
           /\ Len(groups[k][j]) = Len(groups[1][1])
           /\ j > 1 => Len(Join(" : ", SubSeq(groups[k], 1, j))) <= LineWidth
           /\ (j = 1 /\ k > 1) =>
                  Len(Join(" : ", groups[k - 1])) + Len(" : ") + Len(groups[k][1])
                      > LineWidth

\* C20: for a tuple table of one or more points in packed mode, the data
\* lines in order, split at " : ", are the point-groups of the points in
\* order, each once and all of the same length, and a new line starts
\* before a group exactly when the current line with " : " and the group
\* would be longer than 80 characters.
C20_PackedGroupsInOrder ==
    PackedRender =>
        PackedInOrder(tbl, [k \in 1..Len(DataLines(tret.text)) |->
                               SplitAt(DataLines(tret.text)[k], " : ")])

\* a packed render of lines of two point-groups and a last line of one, a
\* third group making 81 characters, with values of different widths in one
\* dimension
C20_Witness ==
    /\ PackedRender
    /\ Len(DataLines(tret.text)) = 3
    /\ \A k \in 1..2 : Len(SplitAt(DataLines(tret.text)[k], " : ")) = 2
    /\ DataLines(tret.text)[3] = PointGroup(tbl, 5)
    /\ 3 * Len(PointGroup(tbl, 1)) + 2 * Len(" : ") = LineWidth + 1
    /\ Len(FormatFixed(tbl.data.rows[2][1], tbl.decimal_places))
           < Len(FormatFixed(tbl.data.rows[2][2], tbl.decimal_places))

\* the matrix has the table's number of sequences, all of the same length
WellShaped(self, rows) ==
    /\ Len(rows) = Len(self.dimensions)
    /\ \A d, e \in 1..Len(rows) : Len(rows[d]) = Len(rows[e])

\* C8: assigning a matrix whose outer length differs from the table's number
\* of dimensions, or whose sequences differ in length, fails and leaves the
\* stored data unchanged; the data stored in a table always has exactly
\* ndimensions sequences of the same length.
C8_ShapeCheckedAtAssignment ==
    [][/\ (tret'.op = "set_data" /\ ~(tret'.arg.islist /\ WellShaped(tbl, tret'.arg.rows)))
           => (tret'.raised /\ tbl'.data = tbl.data)
       /\ tbl'.data.st = "list" => WellShaped(tbl', tbl'.data.rows)]_vars

\* a ragged matrix was refused while the table holds data
C8_Witness ==
    /\ tret.op = "set_data" /\ tret.raised
    /\ tret.arg.islist /\ Len(tret.arg.rows) = Len(tbl.dimensions)
    /\ tbl.data.st = "list" /\ tbl.data.rows[1] # <<>>

\* C15: the full render (repr) of a table is its header followed by all its
\* data lines; the preview (str) is the four lines header, first data line,
\* '$$etc...', last data line when the table produces more than 3 data
\* lines, and is the full render when it produces 3 or fewer.
C15_PreviewAboveThreeLines ==
    LET lines == str_data_lines(tbl).lines
        full == <<str_first_line(tbl)>> \o lines
    IN  /\ (tret.op = "repr" /\ ~tret.raised) => SplitLines(tret.text) = full
        /\ (tret.op = "str" /\ ~tret.raised) =>
               IF Len(lines) > 3
               THEN SplitLines(tret.text)
                        = <<full[1], lines[1], "$$etc...", lines[Len(lines)]>>
               ELSE tret.text = Join("\n", full)

\* the preview of a table of five data lines: four lines, the third the mark
C15_Witness ==
    /\ tret.op = "str" /\ ~tret.raised
    /\ Len(str_data_lines(tbl).lines) = 5
    /\ Len(SplitLines(tret.text)) = 4
    /\ SplitLines(tret.text)[3] = "$$etc..."
    /\ tret.text # DataTable_repr(tbl).text

-----------------------------------------------------------------------------
(* jdx.py: the classes and their data records *)

\* the subclasses of DataRecord and DataTableRecord as the schemas call them
DataRecord(label, format, choices, validators, required) ==
    [cls |-> "DataRecord",
     record |-> DataRecordInit(label, format, choices, validators, required, PyNone)]

TextDataRecord(label, required) ==
    [cls |-> "TextDataRecord",
     record |-> DataRecordInit(label, "TEXT", NoChoices, <<>>, required, PyNone)]

StringDataRecord(label, choices, validators, required) ==
    [cls |-> "StringDataRecord",
     record |-> DataRecordInit(label, "STRING", choices, validators, required, PyNone)]

AFFNDataRecord(label, required) ==
    [cls |-> "AFFNDataRecord",
     record |-> DataRecordInit(label, "AFFN", NoChoices, <<>>, required, PyNone)]

NoValidators == [given |-> FALSE, items |-> <<>>]
Validators(items) == [given |-> TRUE, items |-> items]

\* LongDateDataRecord.__init__: _validate_date is appended to the list of the
\* keyword argument, which is a fresh list when no validators are given
LongDateDataRecord(label, validators, required) ==
    [cls |-> "LongDateDataRecord",
     record |-> DataRecordInit(label, "STRING", NoChoices,
                               IF validators.given
                               THEN Append(validators.items, "validate_date")
                               ELSE <<>>,
                               required, PyNone)]

SequenceDataTableRecord(label, format) ==
    [cls |-> "SequenceDataTableRecord",
     record |-> DataTableRecordInit("sequence", label, format, 4, PyNone, FALSE)]

TupleDataTableRecord(label, format) ==
    [cls |-> "TupleDataTableRecord",
     record |-> DataTableRecordInit("tuple", label, format, 4, PyNone, FALSE)]

\* a class attribute: name = <record>
Attr(name, value) == [name |-> name, cls |-> value.cls, record |-> value.record]

\* isinstance(attr, DataRecord), isinstance(attr, DataTableRecord)
IsDataRecord(attr) ==
    attr.cls \in {"DataRecord", "TextDataRecord", "StringDataRecord",
                  "AFFNDataRecord", "LongDateDataRecord"}
IsDataTableRecord(attr) ==
    attr.cls \in {"SequenceDataTableRecord", "TupleDataTableRecord"}

\* the body of class SimpleJDX
SimpleJDX_attrs ==
    <<Attr("title", TextDataRecord("TITLE", TRUE)),
      Attr("jcamp_dx", StringDataRecord("JCAMP-DX", Choices(<<"5.01">>),
              <<>>, TRUE)),
      Attr("data_type", StringDataRecord("DATA TYPE",
              Choices(<<"INFRARED SPECTRUM", "RAMAN SPECTRUM",
              "INFRARED PEAK TABLE", "INFRARED INTERFEROGRAM",
              "INFRARED TRANSFORMED SPECTRUM">>), <<>>, TRUE)),
      Attr("xunits", StringDataRecord("XUNITS", Choices(<<"l/CM",
              "MICROMETERS", "NANOMETERS", "SECONDS">>), <<>>, TRUE)),
      Attr("yunits", StringDataRecord("YUNITS", Choices(<<"TRANSMITTANCE",
              "REFLECTANCE", "ABSORBANCE", "KUBELKA-MUNK",
              "ARBITRARY UNITS">>), <<>>, TRUE)),
      Attr("firstx", AFFNDataRecord("FIRSTX", TRUE)),
      Attr("lastx", AFFNDataRecord("LASTX", TRUE)),
      Attr("maxx", AFFNDataRecord("MAXX", FALSE)),
      Attr("minx", AFFNDataRecord("MINX", FALSE)),
      Attr("maxy", AFFNDataRecord("MAXY", FALSE)),
      Attr("miny", AFFNDataRecord("MINY", FALSE)),
      Attr("xfactor", AFFNDataRecord("XFACTOR", TRUE)),
      Attr("yfactor", AFFNDataRecord("YFACTOR", TRUE)),
      Attr("npoints", AFFNDataRecord("NPOINTS", TRUE)),
      Attr("firsty", AFFNDataRecord("FIRSTY", FALSE)),
      Attr("resolution", StringDataRecord("RESOLUTION", NoChoices, <<>>, FALSE)),
      Attr("deltax", DataRecord("DELTAX", "AFFN|ASDF", NoChoices, <<>>, FALSE)),
      Attr("xlabel", TextDataRecord("XLABEL", FALSE)),
      Attr("ylabel", TextDataRecord("YLABEL", FALSE)),
      Attr("xydata", SequenceDataTableRecord("XYDATA", "(X++(Y..Y))")),
      Attr("xypoints", TupleDataTableRecord("XYPOINTS", "(XY..XY)")),
      Attr("peak_table", TupleDataTableRecord("PEAK TABLE", "(XY..XY)")),
      Attr("class_", StringDataRecord("CLASS", NoChoices, <<>>, FALSE)),
      Attr("origin", TextDataRecord("ORIGIN", TRUE)),
      Attr("owner", TextDataRecord("OWNER", TRUE)),
      Attr("long_date", LongDateDataRecord("LONG DATE", NoValidators, FALSE)),
      Attr("source_reference", TextDataRecord("SOURCE REFERENCE", FALSE)),
      Attr("cross_reference", TextDataRecord("CROSS REFERENCE", FALSE)),
      Attr("sample_description", TextDataRecord("SAMPLE DESCRIPTION", FALSE)),
      Attr("iupac_name", TextDataRecord("IUPAC NAME", FALSE)),
      Attr("cas_name", StringDataRecord("CAS NAME", NoChoices, <<>>, FALSE)),
      Attr("names", StringDataRecord("NAMES", NoChoices, <<>>, FALSE)),
      Attr("molform", StringDataRecord("MOLFORM", NoChoices, <<>>, FALSE)),
      Attr("cas_registry_no", StringDataRecord("CAS REGISTRY NO", NoChoices,
              <<>>, FALSE)),
      Attr("wiswesser", StringDataRecord("WISWESSER", NoChoices, <<>>, FALSE)),
      Attr("beilstein_lawson_no", StringDataRecord("BEILSTEIN LAWSON NO",
              NoChoices, <<>>, FALSE)),
      Attr("mp", AFFNDataRecord("MP", FALSE)),
      Attr("bp", AFFNDataRecord("BP", FALSE)),
      Attr("refractive_index", AFFNDataRecord("REFRACTIVE INDEX", FALSE)),
      Attr("density", AFFNDataRecord("DENSITY", FALSE)),
      Attr("mw", AFFNDataRecord("MW", FALSE)),
      Attr("concentrations", StringDataRecord("CONCENTRATIONS", NoChoices,
              <<>>, FALSE)),
      Attr("spectrometer", StringDataRecord("SPECTROMETER/DATA SYSTEM",
              NoChoices, <<>>, FALSE)),
      Attr("instrument_parameters",
           StringDataRecord("INSTRUMENT PARAMETERS", NoChoices, <<>>, FALSE)),
      Attr("sampling_procedure", TextDataRecord("SAMPLING PROCEDURE", FALSE)),
      Attr("state", StringDataRecord("STATE", NoChoices, <<>>, FALSE)),
      Attr("path_length", StringDataRecord("PATH LENGTH", NoChoices, <<>>,
              FALSE)),
      Attr("pressure", StringDataRecord("PRESSURE", NoChoices, <<>>, FALSE)),
      Attr("temperature", StringDataRecord("TEMPERATURE", NoChoices, <<>>,
              FALSE)),
      Attr("data_processing", TextDataRecord("DATA PROCESSING", FALSE)),
      Attr("audit_trail",
           DataRecord("AUDIT TRAIL", "(AFFN, STRING, TEXT, TEXT, TEXT)", NoChoices,
                      <<>>, FALSE)),
      Attr("comments", TextDataRecord("", FALSE))>>

\* the body of class CustomSimpleJDX(SimpleJDX) of the tests, with a second
\* record that carries a rule reading the block's values
CustomSimpleJDX_attrs ==
    <<Attr("my_custom_record",
           StringDataRecord("$MY CUSTOM RECORD", Choices(<<"A", "B">>), <<>>, TRUE)),
      Attr("my_checked_record",
           DataRecord("$MY CHECKED RECORD", "STRING", NoChoices,
                      <<"context_validator">>, FALSE))>>

\* the body of class CompoundJDX
CompoundJDX_attrs ==
    <<Attr("title", TextDataRecord("TITLE", TRUE)),
      Attr("jcamp_dx", StringDataRecord("JCAMP-DX", Choices(<<"5.01">>), <<>>, TRUE)),
      Attr("data_type", StringDataRecord("DATA TYPE", Choices(<<"LINK">>), <<>>, TRUE)),
      Attr("block_count", AFFNDataRecord("BLOCKS", TRUE))>>

RECURSIVE Names(_)
\* the names of a sequence of attributes
Names(attrs) ==
    IF attrs = <<>> THEN <<>>
    ELSE <<attrs[1].name>> \o Names(Tail(attrs))

\* "in" for a list of names
Contains(names, name) == \E i \in 1..Len(names) : names[i] = name

\* list.index
IndexOf(names, name) ==
    CHOOSE i \in 1..Len(names) :
        names[i] = name /\ \A k \in 1..(i - 1) : names[k] # name

RECURSIVE AttrDict(_)
\* the attributes by name
AttrDict(attrs) ==
    IF attrs = <<>> THEN <<>>
    ELSE (attrs[1].name :> attrs[1]) @@ AttrDict(Tail(attrs))

\* BaseJDX._all_data_records of a class whose __dir__() lists attrs: the
\* data records with those before 'title' moved to the end ('title' is a
\* record of every class here)
AllDataRecords(attrs) ==
    LET data_record_attrs == Names(SelectSeq(attrs, IsDataRecord))
        i0 == IndexOf(data_record_attrs, "title")
    IN  IF i0 # 1
        THEN SubSeq(data_record_attrs, i0, Len(data_record_attrs))
             \o SubSeq(data_record_attrs, 1, i0 - 1)
        ELSE data_record_attrs

\* BaseJDX._all_data_table_records, before the instance names its table
AllDataTableRecords(attrs) == Names(SelectSeq(attrs, IsDataTableRecord))

RECURSIVE ValuesOf(_, _), TablesOf(_, _)
\* the values of the records and the tables named
ValuesOf(dict, names) ==
    IF names = <<>> THEN <<>>
    ELSE (names[1] :> dict[names[1]].record.value) @@ ValuesOf(dict, Tail(names))
TablesOf(dict, names) ==
    IF names = <<>> THEN <<>>
    ELSE (names[1] :> dict[names[1]].record) @@ TablesOf(dict, Tail(names))

NoOutputList == [given |-> FALSE, items |-> <<>>]

\* output_data_records = [...] in the body of a class
OutputList(items) == [given |-> TRUE, items |-> items]

\* a class whose __dir__() lists attrs, its data records and tables only:
\* its attributes by name, what _all_data_records and
\* _all_data_table_records return for it, and its output_data_records
Class(attrs) ==
    [dict |-> AttrDict(attrs),
     all_data_records |-> AllDataRecords(attrs),
     all_data_table_records |-> AllDataTableRecords(attrs),
     output_data_records |-> NoOutputList]

\* class ListedSimpleJDX(SimpleJDX): output_data_records = items
ListedSimpleJDX(items) ==
    [Class(SimpleJDX_attrs) EXCEPT !.output_data_records = OutputList(items)]

\* the classes: __dir__() gives the names of the class itself, then those of
\* its base
Classes ==
    [SimpleJDX |-> Class(SimpleJDX_attrs),
     CustomSimpleJDX |-> Class(CustomSimpleJDX_attrs \o SimpleJDX_attrs),
     CompoundJDX |-> Class(CompoundJDX_attrs)]

\* isinstance(block, SimpleJDX)
IsSimpleJDX(block) ==
    /\ "cls" \in DOMAIN block
    /\ block.cls \in {"SimpleJDX", "CustomSimpleJDX", "ListedSimpleJDX"}

all_data_records(cls) == classes[cls].all_data_records
all_data_table_records(cls) == classes[cls].all_data_table_records

\* getattr(self.__class__, name)
ClassAttr(cls, name) == classes[cls].dict[name]

-----------------------------------------------------------------------------
(* jdx.py: BaseJDX *)

\* the outcome of a call that raises
Raise(exc, msg) == [raised |-> TRUE, exc |-> exc, msg |-> msg]
Return == [raised |-> FALSE, exc |-> "", msg |-> ""]

\* BaseJDX.__init__: every data record and table of the class is copied to
\* the instance; the instance holds the records' values and its tables
BaseJDXInit(cls) ==
    [cls |-> cls,
     values |-> ValuesOf(classes[cls].dict, all_data_records(cls)),
     tables |-> TablesOf(classes[cls].dict, all_data_table_records(cls)),
     output_data_records |-> classes[cls].output_data_records]

\* getattr(self, name) of a data record
GetRecord(self, name) ==
    [ClassAttr(self.cls, name).record EXCEPT !.value = self.values[name]]

\* DataRecord.value and LongDateDataRecord.value (setters)
value_setter(cls, value) ==
    IF cls = "LongDateDataRecord" THEN PyStr(ToStr(value)) ELSE value

\* getattr(self, name).value = value
SetRecordValue(self, name, value) ==
    [self EXCEPT !.values[name] = value_setter(ClassAttr(self.cls, name).cls, value)]

\* bool(value)
Truthy(value) ==
    CASE value.t = "str" -> value.s # ""
      [] value.t = "int" -> value.n # 0
      [] OTHER -> FALSE

\* get_output_data_records without its checks of an explicit list
get_output_data_records_unchecked(self) ==
    LET all == all_data_records(self.cls)
        out == self.output_data_records
        Wanted(name) == GetRecord(self, name).required \/ Truthy(self.values[name])
    IN  Return @@ [names |-> IF out.given THEN out.items ELSE SelectSeq(all, Wanted)]

\* BaseJDX.get_output_data_records
get_output_data_records(self) ==
    LET all == all_data_records(self.cls)
        out == self.output_data_records
        Wanted(name) == GetRecord(self, name).required \/ Truthy(self.values[name])
        undefined == {i \in 1..Len(out.items) : ~Contains(all, out.items[i])}
        missing == {i \in 1..Len(all) :
                       /\ GetRecord(self, all[i]).required
                       /\ ~Contains(out.items, all[i])}
        data_records_attrs == IF out.given THEN out.items ELSE SelectSeq(all, Wanted)
    IN  IF out.given /\ undefined # {}
        THEN Raise("AssertionError",
                   "Data record '" \o out.items[Min(undefined)]
                   \o "' in 'output_data_records' was not defined")
             @@ [names |-> <<>>]
        ELSE IF out.given /\ missing # {}
        THEN Raise("AssertionError",
                   "Data record '" \o all[Min(missing)]
                   \o "' is required by not included in 'output_data_records'")
             @@ [names |-> <<>>]
        ELSE IF data_records_attrs = <<>>
        THEN Raise("IndexError", "list index out of range") @@ [names |-> <<>>]
        ELSE IF data_records_attrs[1] # "title"
        THEN Raise("AssertionError", "First output data record must be 'title'")
             @@ [names |-> <<>>]
        ELSE Return @@ [names |-> data_records_attrs]

RECURSIVE ValuesDict(_, _)
\* {name: getattr(self, name).value for name in names}
ValuesDict(self, names) ==
    IF names = <<>> THEN <<>>
    ELSE ValuesDict(self, Tail(names)) @@ (names[1] :> self.values[names[1]])

\* BaseJDX.values_dict
BaseJDX_values_dict(self) == ValuesDict(self, all_data_records(self.cls))

\* values_dict = self.values_dict in BaseJDX.validate: the method is not called
validate_values_dict(self) == BoundMethod("values_dict")

\* the loop of BaseJDX.validate over the output records o.names: the errors
\* of each, those without left out
ValidateRecords(self, o, values_dict) ==
    LET validations ==
            [i \in 1..Len(o.names) |->
                [name |-> o.names[i],
                 errors |-> DataRecord_validate(GetRecord(self, o.names[i]),
                                                values_dict)]]
        NonEmpty(v) == Len(v.errors) # 0
    IN  IF o.raised
        THEN Raise(o.exc, o.msg) @@ [validations |-> <<>>, block_values |-> values_dict]
        ELSE Return @@ [validations |-> SelectSeq(validations, NonEmpty),
                        block_values |-> values_dict]

\* BaseJDX.validate
BaseJDX_validate(self) ==
    ValidateRecords(self, get_output_data_records(self), validate_values_dict(self))

\* DataRecord.__repr__
DataRecord_repr(self) == DataRecord_str(self)

\* "\n".join([str(r) for r in data_records]), o the outcome of
\* get_output_data_records
JoinRecordsStr(self, o) ==
    IF o.raised THEN Raise(o.exc, o.msg) @@ [text |-> ""]
    ELSE Return @@ [text |-> Join("\n", [i \in 1..Len(o.names) |->
                              DataRecord_str(GetRecord(self, o.names[i]))])]

\* "\n".join([repr(r) for r in data_records])
JoinRecordsRepr(self, o) ==
    IF o.raised THEN Raise(o.exc, o.msg) @@ [text |-> ""]
    ELSE Return @@ [text |-> Join("\n", [i \in 1..Len(o.names) |->
                              DataRecord_repr(GetRecord(self, o.names[i]))])]

\* BaseJDX.__str__
BaseJDX_str(self) == JoinRecordsStr(self, get_output_data_records(self))

\* BaseJDX.__repr__
BaseJDX_repr(self) == JoinRecordsRepr(self, get_output_data_records(self))

-----------------------------------------------------------------------------
(* jdx.py: SimpleJDX *)

\* one keyword argument: a value for a data record, or a matrix for a table
Arg(k, v) == [k |-> k, v |-> v, data |-> NoArg]
TableArg(k, data) == [k |-> k, v |-> PyNone, data |-> data]

\* k in kwargs
HasKey(kwargs, k) == \E i \in 1..Len(kwargs) : kwargs[i].k = k

\* kwargs.get(key, default), were the supplied value not looked at
kwargs_get_default(kwargs, key, default) == default

\* kwargs.get(key, default)
kwargs_get(kwargs, key, default) ==
    IF HasKey(kwargs, key)
    THEN kwargs[CHOOSE i \in 1..Len(kwargs) : kwargs[i].k = key].v
    ELSE default

\* kwargs.update({k: v}): a key keeps its place, a new key goes last
kwargs_update(kwargs, k, v) ==
    IF HasKey(kwargs, k)
    THEN [i \in 1..Len(kwargs) |->
             IF kwargs[i].k = k THEN Arg(k, v) ELSE kwargs[i]]
    ELSE Append(kwargs, Arg(k, v))

\* the table branch of the loop without its test of _any_data
load_table_again(self, any_data, k, data, single_column, decimal_places) ==
    LET r == data_setter(self.tables[k], data)
    IN  IF r.raised THEN Raise("ValueError", r.msg) @@ [self |-> self]
        ELSE Return @@
             [self |-> [self EXCEPT
                  !.table_name = k,
                  !.tables[k] = [@ EXCEPT !.data = Data(data.rows),
                                          !.single_column = single_column,
                                          !.decimal_places = decimal_places]]]

\* the table branch of the loop of SimpleJDX.__init__
load_table(self, any_data, k, data, single_column, decimal_places) ==
    LET r == data_setter(self.tables[k], data)
    IN  IF any_data
        THEN Raise("ValueError", "Only one data table record is allowed.")
             @@ [self |-> self]
        ELSE IF r.raised THEN Raise("ValueError", r.msg) @@ [self |-> self]
        ELSE Return @@
             [self |-> [self EXCEPT
                  !.table_name = k,
                  !.tables[k] = [@ EXCEPT !.data = Data(data.rows),
                                          !.single_column = single_column,
                                          !.decimal_places = decimal_places]]]

RECURSIVE load_kwargs(_, _, _, _, _, _)
\* the loop of SimpleJDX.__init__ over kwargs.items(), from the i-th on
load_kwargs(self, kwargs, i, any_data, single_column, decimal_places) ==
    IF i > Len(kwargs) THEN Return @@ [self |-> self, any_data |-> any_data]
    ELSE IF Contains(all_data_records(self.cls), kwargs[i].k)
    THEN load_kwargs(SetRecordValue(self, kwargs[i].k, kwargs[i].v), kwargs, i + 1,
                     any_data, single_column, decimal_places)
    ELSE IF Contains(all_data_table_records(self.cls), kwargs[i].k)
    THEN LET r == load_table(self, any_data, kwargs[i].k, kwargs[i].data,
                             single_column, decimal_places)
         IN  IF r.raised THEN r @@ [any_data |-> any_data]
             ELSE load_kwargs(r.self, kwargs, i + 1, TRUE, single_column,
                              decimal_places)
    ELSE Raise("ValueError", "Unexpected data label " \o kwargs[i].k)
         @@ [self |-> self, any_data |-> any_data]

\* SimpleJDX.__init__
SimpleJDXInit(cls, single_column, decimal_places, given) ==
    LET self0 == BaseJDXInit(cls) @@ [table_name |-> ""]
        kwargs == kwargs_update(given, "jcamp_dx", PyStr("5.01"))
        o == get_output_data_records(self0)
        l == load_kwargs(self0, kwargs, 1, FALSE, single_column, decimal_places)
        x == l.self.tables[l.self.table_name].data.rows[1]
        self1 == SetRecordValue(l.self, "firstx",
                                kwargs_get(kwargs, "firstx", PyInt(x[1])))
        self2 == SetRecordValue(self1, "lastx",
                                kwargs_get(kwargs, "lastx", PyInt(x[Len(x)])))
        self3 == SetRecordValue(self2, "npoints",
                                kwargs_get(kwargs, "npoints", PyInt(Len(x))))
    IN  IF o.raised THEN Raise(o.exc, o.msg) @@ [self |-> NoBlock]
        ELSE IF l.raised THEN Raise(l.exc, l.msg) @@ [self |-> NoBlock]
        ELSE IF ~l.any_data
        THEN Raise("ValueError", "No actual data is provided.") @@ [self |-> NoBlock]
        ELSE IF x = <<>>
        THEN Raise("IndexError", "list index out of range") @@ [self |-> NoBlock]
        ELSE IF HasKey(kwargs, "xfactor") \/ HasKey(kwargs, "yfactor")
        THEN Raise("NotImplementedError", "Custom X/Y factors are not available yet.")
             @@ [self |-> NoBlock]
        ELSE Return @@
             [self |-> SetRecordValue(SetRecordValue(self3, "xfactor", PyInt(1)),
                                      "yfactor", PyInt(1))]

\* self._data_table_record
data_table_record(self) == self.tables[self.table_name]

\* the class name in the message of an AttributeError
TableClass(table) ==
    IF table.kind = "tuple" THEN "TupleDataTableRecord"
    ELSE "SequenceDataTableRecord"

\* SimpleJDX.values_dict
SimpleJDX_values_dict(self) ==
    IF data_table_record(self).data.st = "deleted"
    THEN Raise("AttributeError", "'" \o TableClass(data_table_record(self))
                                 \o "' object has no attribute '_data'")
         @@ [map |-> <<>>]
    ELSE Return @@ [map |-> (self.table_name :> data_table_record(self).data)
                            @@ BaseJDX_values_dict(self)]

\* SimpleJDX.validate after super().validate() has returned validations
ValidateTable(self, validations) ==
    LET data == data_table_record(self).data
    IN  IF validations.raised THEN validations
        ELSE IF data.st = "deleted"
        THEN Raise("AttributeError", "'" \o TableClass(data_table_record(self))
                                     \o "' object has no attribute '_data'")
             @@ [validations |-> <<>>, block_values |-> validations.block_values]
        ELSE IF data.st = "none"
        THEN [validations EXCEPT !.validations =
                  Append(@, [name |-> self.table_name,
                             errors |-> <<"No data provided">>])]
        ELSE validations

\* SimpleJDX.validate
SimpleJDX_validate(self) == ValidateTable(self, BaseJDX_validate(self))

\* "\n".join([headers, table, "##END="]) of the rendered headers and table
JoinBlock(headers, table) ==
    IF headers.raised THEN headers
    ELSE IF table.raised THEN Raise(table.msg, "") @@ [text |-> ""]
    ELSE Return @@ [text |-> Join("\n", <<headers.text, table.text, "##END=">>)]

\* SimpleJDX.__str__
SimpleJDX_str(self) ==
    JoinBlock(BaseJDX_str(self), DataTable_str(data_table_record(self)))

\* SimpleJDX.__repr__
SimpleJDX_repr(self) ==
    JoinBlock(BaseJDX_repr(self), DataTable_repr(data_table_record(self)))

-----------------------------------------------------------------------------
(* jdx.py: CompoundJDX *)

\* CompoundJDX.__init__
CompoundJDXInit(title, blocks) ==
    LET self0 == BaseJDXInit("CompoundJDX")
        self1 == SetRecordValue(self0, "jcamp_dx", PyStr("5.01"))
        self2 == SetRecordValue(self1, "data_type", PyStr("LINK"))
        self3 == SetRecordValue(self2, "title", title)
        self4 == SetRecordValue(self3, "block_count", PyInt(Len(blocks)))
    IN  self4 @@ [blocks |-> blocks]

\* CompoundJDX.add_block
add_block(self, block) ==
    IF IsSimpleJDX(block)
    THEN Return @@
         [self |-> SetRecordValue([self EXCEPT !.blocks = Append(@, block)],
                                  "block_count", PyInt(Len(self.blocks) + 1))]
    ELSE Raise("ValueError",
               "The inner block must be an instance of a SimpleJDX or its subclass.")
         @@ [self |-> self]

\* str(block) and repr(block) of an element of self.blocks
Block_str(block) ==
    IF IsSimpleJDX(block) THEN SimpleJDX_str(block)
    ELSE Return @@ [text |-> ToStr(block)]
Block_repr(block) ==
    IF IsSimpleJDX(block) THEN SimpleJDX_repr(block)
    ELSE Return @@ [text |-> ToStr(block)]

\* the join of the header and the blocks, were no blank line put between
JoinBlocksNoBlank(self, headers, blocks) ==
    LET failed == {i \in 1..Len(blocks) : blocks[i].raised}
    IN  IF headers.raised THEN headers @@ [self |-> self]
        ELSE IF failed # {}
        THEN Raise(blocks[Min(failed)].exc, blocks[Min(failed)].msg)
             @@ [text |-> "", self |-> self]
        ELSE Return @@
             [text |-> Join("\n", <<headers.text>>
                                  \o [i \in 1..Len(blocks) |-> blocks[i].text]
                                  \o <<"##END=">>),
              self |-> SetRecordValue(self, "block_count", PyInt(Len(blocks)))]

\* what CompoundJDX.__str__ and __repr__ make of the rendered header and
\* blocks: block_count is set once the header and the blocks are rendered
JoinBlocks(self, headers, blocks) ==
    LET failed == {i \in 1..Len(blocks) : blocks[i].raised}
    IN  IF headers.raised THEN headers @@ [self |-> self]
        ELSE IF failed # {}
        THEN Raise(blocks[Min(failed)].exc, blocks[Min(failed)].msg)
             @@ [text |-> "", self |-> self]
        ELSE Return @@
             [text |-> Join("\n\n", <<headers.text>>
                                    \o [i \in 1..Len(blocks) |-> blocks[i].text]
                                    \o <<"##END=">>),
              self |-> SetRecordValue(self, "block_count", PyInt(Len(blocks)))]

\* CompoundJDX.__str__
CompoundJDX_str(self) ==
    JoinBlocks(self, BaseJDX_str(self),
               [i \in 1..Len(self.blocks) |-> Block_str(self.blocks[i])])

\* CompoundJDX.__repr__
CompoundJDX_repr(self) ==
    JoinBlocks(self, BaseJDX_repr(self),
               [i \in 1..Len(self.blocks) |-> Block_repr(self.blocks[i])])

\* to_string, were a validation error to stop the render
WarnOrRepr(validations, repr) ==
    IF validations.raised \/ Len(validations.validations) # 0
    THEN Raise("ValueError", "invalid") @@ [text |-> "", warned |-> TRUE]
    ELSE repr @@ [warned |-> FALSE]

\* BaseJDX.to_string after self.validate() has returned validations: the
\* errors go to warnings.warn, the text is repr(self)
WarnAndRepr(validations, repr) ==
    IF validations.raised
    THEN Raise(validations.exc, validations.msg) @@ [text |-> "", warned |-> FALSE]
    ELSE repr @@ [warned |-> Len(validations.validations) # 0]

\* BaseJDX.to_string of a SimpleJDX
SimpleJDX_to_string(self) ==
    WarnAndRepr(SimpleJDX_validate(self), SimpleJDX_repr(self))

\* BaseJDX.to_string of a CompoundJDX
CompoundJDX_to_string(self) ==
    WarnAndRepr(BaseJDX_validate(self), CompoundJDX_repr(self)) @@ [self |-> self]

-----------------------------------------------------------------------------
(* Calls on one SimpleJDX *)

MaxArgs == 3

\* a matrix of two sequences of n numbers
GoodTable(n) == [islist |-> TRUE, rows |-> <<Sequence(TRUE, n), Sequence(FALSE, n)>>]

\* the keyword arguments a block is made of: values of data records, the
\* record of the subclass, the three tables, an empty matrix and a ragged one
KwargItems ==
    <<Arg("title", PyStr("t")),
      Arg("data_type", PyStr("RAMAN SPECTRUM")),
      Arg("firstx", PyInt(7)),
      Arg("lastx", PyNone),
      Arg("npoints", PyInt(0)),
      Arg("xfactor", PyInt(2)),
      Arg("yfactor", PyInt(1)),
      Arg("my_checked_record", PyStr("v")),
      Arg("firsty", PyInt(0)),
      TableArg("xydata", GoodTable(2)),
      TableArg("xydata", GoodTable(0)),
      TableArg("xypoints", GoodTable(3)),
      TableArg("peak_table", GoodTable(1)),
      TableArg("peak_table", [islist |-> TRUE,
                              rows |-> <<Sequence(TRUE, 2), Sequence(FALSE, 1)>>])>>

RECURSIVE Ascending(_)
\* the numbers of S in ascending order
Ascending(S) ==
    IF S = {} THEN <<>> ELSE <<Min(S)>> \o Ascending(S \ {Min(S)})

RECURSIVE Descending(_)
Descending(S) ==
    IF S = {} THEN <<>> ELSE <<Max(S)>> \o Descending(S \ {Max(S)})

RECURSIVE Pick(_)
\* the items at the places listed
Pick(places) ==
    IF places = <<>> THEN <<>>
    ELSE <<KwargItems[places[1]]>> \o Pick(Tail(places))

\* the keyword arguments of a block with every required record given a
\* value its rules accept
CompleteKwargs ==
    <<Arg("title", PyStr("Some title")),
      Arg("data_type", PyStr("RAMAN SPECTRUM")),
      Arg("xunits", PyStr("l/CM")),
      Arg("yunits", PyStr("ABSORBANCE")),
      Arg("origin", PyStr("My origin")),
      Arg("owner", PyStr("Me")),
      TableArg("xypoints", GoodTable(3))>>

\* the long dates a complete block is given: of the first and of the last
\* allowed format, a day no month has, and the day first
LongDates == {"2020/01/02", "2020/01/02 03:04:05.6+0100", "2020/02/30", "02.01.2020"}

\* the complete keyword arguments and a long date
DatedKwargs(date) == Append(CompleteKwargs, Arg("long_date", PyStr(date)))

\* the keyword arguments of a construction: up to MaxArgs items with
\* different keys, in the order above or in the opposite order, and the
\* complete ones
BlockKwargs ==
    LET chosen == {S \in SUBSET (1..Len(KwargItems)) :
                      /\ Cardinality(S) <= MaxArgs
                      /\ \A a, b \in S : a # b => KwargItems[a].k # KwargItems[b].k}
    IN  {Pick(Ascending(S)) : S \in chosen} \cup {Pick(Descending(S)) : S \in chosen}
        \cup {CompleteKwargs} \cup {DatedKwargs(date) : date \in LongDates}

BlockClasses == {"SimpleJDX", "CustomSimpleJDX"}

\* the values a data record of a block is given after the construction
BlockValues == {PyNone, PyStr("RAMAN SPECTRUM")}

\* the constructor has returned or raised: r is its outcome
Made(kwargs, r) ==
    /\ jdx' = IF r.raised THEN jdx ELSE r.self
    /\ jret' = [op |-> "init", raised |-> r.raised, exc |-> r.exc, msg |-> r.msg,
                kwargs |-> kwargs]

\* jdx = cls(single_column=single_column, decimal_places=decimal_places, **kwargs)
New(cls, single_column, decimal_places, kwargs) ==
    /\ jret.op = "none"
    /\ Made(kwargs, SimpleJDXInit(cls, single_column, decimal_places, kwargs))
    /\ UNCHANGED <<ldr, ret, tbl, tret, doc, classes, heap>>

\* jdx.data_type.value = value
SetDataType(value) ==
    /\ jdx.cls # "none"
    /\ jdx.values["data_type"] # value
    /\ jdx' = SetRecordValue(jdx, "data_type", value)
    /\ jret' = [op |-> "set_value", raised |-> FALSE]
    /\ UNCHANGED <<ldr, ret, tbl, tret, doc, classes, heap>>

\* jdx.validate()
CallBlockValidate ==
    /\ jdx.cls # "none"
    /\ jret' = [op |-> "validate"] @@ SimpleJDX_validate(jdx)
    /\ UNCHANGED <<ldr, ret, tbl, tret, jdx, doc, classes, heap>>

\* jdx.to_string()
CallBlockToString ==
    /\ jdx.cls # "none"
    /\ jret' = [op |-> "to_string"] @@ SimpleJDX_to_string(jdx)
    /\ UNCHANGED <<ldr, ret, tbl, tret, jdx, doc, classes, heap>>

\* del jdx._data_table_record.data, the deleter of DataTableRecord.data
DelTableData ==
    /\ jdx.cls # "none"
    /\ data_table_record(jdx).data.st = "list"
    /\ jdx' = [jdx EXCEPT !.tables[jdx.table_name].data = DeletedData]
    /\ jret' = [op |-> "del_data", raised |-> FALSE]
    /\ UNCHANGED <<ldr, ret, tbl, tret, doc, classes, heap>>

\* jdx.get_output_data_records()
CallGetOutputDataRecords ==
    /\ jdx.cls # "none"
    /\ jret' = [op |-> "get_output_data_records"] @@ get_output_data_records(jdx)
    /\ UNCHANGED <<ldr, ret, tbl, tret, jdx, doc, classes, heap>>

\* the classes as jdx.py defines them, no block made yet
BlockInit ==
    /\ classes = Classes
    /\ heap = NoHeap
    /\ jdx = NoBlock
    /\ doc = NoBlock
    /\ jret = NoCall
    /\ ldr = DataRecordInit("", "TEXT", NoChoices, <<>>, FALSE, PyNone)
    /\ ret = NoRet
    /\ tbl = NoTable
    /\ tret = NoRet

BlockNext ==
    \/ \E cls \in BlockClasses, single_column \in BOOLEAN, kwargs \in BlockKwargs :
           New(cls, single_column, 4, kwargs)
    \/ \E value \in BlockValues : SetDataType(value)
    \/ CallBlockValidate
    \/ CallGetOutputDataRecords
    \/ DelTableData
    \/ CallBlockToString

SpecBlock == BlockInit /\ [][BlockNext]_vars

-----------------------------------------------------------------------------
(* Calls on one SimpleJDX of a class with an explicit output list *)

\* the required data records of SimpleJDX, in the order of the schema
RequiredRecords ==
    LET c == Class(SimpleJDX_attrs)
        Required(name) == c.dict[name].record.required
    IN  SelectSeq(c.all_data_records, Required)

\* s[::-1]
Reversed(s) == [i \in 1..Len(s) |-> s[Len(s) + 1 - i]]

\* the lists a subclass gives as output_data_records: the required records,
\* with an optional record last or second, in another order, with title last
\* or left out, with owner left out, with a name that is no record or is a
\* table, and the empty list
OutputLists ==
    LET R == RequiredRecords
    IN  {R,
         R \o <<"firsty">>,
         <<"title", "firsty">> \o Tail(R),
         <<"title">> \o Reversed(Tail(R)),
         Tail(R) \o <<"title">>,
         Tail(R),
         SubSeq(R, 1, Len(R) - 1),
         R \o <<"bogus">>,
         R \o <<"xypoints">>,
         <<>>}

\* class ListedSimpleJDX is defined with one of the lists, no block made yet
ListedInit ==
    /\ \E items \in OutputLists :
           classes = Classes @@ [ListedSimpleJDX |-> ListedSimpleJDX(items)]
    /\ heap = NoHeap
    /\ jdx = NoBlock
    /\ doc = NoBlock
    /\ jret = NoCall
    /\ ldr = DataRecordInit("", "TEXT", NoChoices, <<>>, FALSE, PyNone)
    /\ ret = NoRet
    /\ tbl = NoTable
    /\ tret = NoRet

ListedNext ==
    \/ \E single_column \in BOOLEAN, kwargs \in BlockKwargs :
           New("ListedSimpleJDX", single_column, 4, kwargs)
    \/ CallGetOutputDataRecords

SpecListed == ListedInit /\ [][ListedNext]_vars

-----------------------------------------------------------------------------
(* Properties of SimpleJDX *)

TableNames == {"xydata", "xypoints", "peak_table"}

\* the keys of the keyword arguments
Keys(kwargs) == {kwargs[i].k : i \in 1..Len(kwargs)}

\* the value the caller supplied for key
Supplied(kwargs, key) == kwargs[CHOOSE i \in 1..Len(kwargs) : kwargs[i].k = key].v

\* the tables of a block that hold data
Holding(self) == {name \in DOMAIN self.tables : self.tables[name].data.st = "list"}

\* C9: constructing a block with no table payload fails, constructing it
\* with two or more table payloads fails, and a block that was constructed
\* has exactly one active table record, which holds data.
C9_ExactlyOneTablePayload ==
    jret.op = "init" =>
        /\ Cardinality(Keys(jret.kwargs) \cap TableNames) # 1 => jret.raised
        /\ ~jret.raised =>
               /\ jdx.table_name \in DOMAIN jdx.tables
               /\ Holding(jdx) = {jdx.table_name}
               /\ jdx.tables[jdx.table_name].data.rows[1] # <<>>

\* a construction with two table payloads was refused at the second
C9_Witness ==
    /\ jret.op = "init" /\ jret.raised
    /\ Cardinality(Keys(jret.kwargs) \cap TableNames) = 2
    /\ jret.msg = "Only one data table record is allowed."

\* C10: after a successful construction with a table whose first sequence is
\* x, firstx, lastx and npoints hold x[0], x[-1] and len(x), except that a
\* field the caller supplied holds the supplied value; xfactor and yfactor
\* hold 1; a construction that supplies xfactor or yfactor fails.
C10_DerivedFromTable ==
    jret.op = "init" =>
        /\ Keys(jret.kwargs) \cap {"xfactor", "yfactor"} # {} => jret.raised
        /\ ~jret.raised =>
               LET x == jdx.tables[jdx.table_name].data.rows[1]
                   Holds(key, derived) ==
                       jdx.values[key] = IF key \in Keys(jret.kwargs)
                                         THEN Supplied(jret.kwargs, key)
                                         ELSE derived
               IN  /\ Holds("firstx", PyInt(x[1]))
                   /\ Holds("lastx", PyInt(x[Len(x)]))
                   /\ Holds("npoints", PyInt(Len(x)))
                   /\ jdx.values["xfactor"] = PyInt(1)
                   /\ jdx.values["yfactor"] = PyInt(1)

\* a block made with firstx supplied and lastx derived from its table
C10_Witness ==
    /\ jret.op = "init" /\ ~jret.raised
    /\ "firstx" \in Keys(jret.kwargs) /\ "lastx" \notin Keys(jret.kwargs)
    /\ jdx.values["firstx"] = PyInt(7)
    /\ jdx.values["firstx"] # PyInt(jdx.tables[jdx.table_name].data.rows[1][1])
    /\ jdx.values["lastx"] = PyInt(3)

\* C7: the rules of a field that validate() selects receive as their second
\* argument the mapping from every field name of the block to the field's
\* current value, the result of values_dict().
C7_RulesReceiveValuesMapping ==
    (jret.op = "validate" /\ ~jret.raised) =>
        jret.block_values = Mapping(SimpleJDX_values_dict(jdx).map)

\* the field is required or holds a value that is not empty; a number is a
\* value, 0 too
RequiredOrHeld(self, name) ==
    \/ ClassAttr(self.cls, name).record.required
    \/ self.values[name] \notin {PyNone, PyStr("")}

\* C11: with no explicit output list, the output list of a block is the
\* fields that are required or hold a non-empty value (a number such as 0
\* counts as held), in the order of the schema: title first, the fields of
\* the base class, then those a subclass declares.
C11_DefaultOutputIsRequiredOrHeld ==
    (/\ jret.op = "get_output_data_records"
     /\ ~jdx.output_data_records.given) =>
        /\ ~jret.raised
        /\ LET Selected(name) == RequiredOrHeld(jdx, name)
           IN  jret.names = SelectSeq(all_data_records(jdx.cls), Selected)

\* the explicit list of class ListedSimpleJDX passes the three checks
ListAccepted ==
    LET c == classes["ListedSimpleJDX"]
        out == c.output_data_records.items
        all == c.all_data_records
        Listed(name) == \E i \in 1..Len(out) : out[i] = name
    IN  /\ \A i \in 1..Len(out) : \E j \in 1..Len(all) : all[j] = out[i]
        /\ \A j \in 1..Len(all) : c.dict[all[j]].record.required => Listed(all[j])
        /\ out # <<>> /\ out[1] = "title"

\* C12: with an explicit output list the construction of a block fails
\* unless every listed name is a field of the schema, every required field
\* is listed and the first entry is title; the output list of a block that
\* was constructed is the explicit list, in its order.
C12_ExplicitOutputListChecked ==
    /\ (jret.op = "init" /\ ~ListAccepted) =>
           jret.raised /\ jret.exc = "AssertionError"
    /\ jdx.cls = "ListedSimpleJDX" =>
           /\ ListAccepted
           /\ jdx.output_data_records = classes["ListedSimpleJDX"].output_data_records
    /\ jret.op = "get_output_data_records" =>
           /\ ~jret.raised
           /\ jret.names = classes["ListedSimpleJDX"].output_data_records.items

\* the output list of a block was read and is the explicit list, which names
\* an optional field that holds nothing, second in the list
C12_Witness ==
    /\ jret.op = "get_output_data_records" /\ ~jret.raised
    /\ jret.names[2] = "firsty"
    /\ jdx.values["firsty"] = PyNone
    /\ jret.names = jdx.output_data_records.items

\* C13: validate() of a block never raises; the keys of the mapping it
\* returns are the selected output fields with at least one failing rule,
\* plus the name of the table when the table holds no data (removed or unset
\* after the construction); no entry has zero errors.
C13_ValidateReportsAndNeverRaises ==
    jret.op = "validate" =>
        /\ ~jret.raised
        /\ LET out == get_output_data_records(jdx).names
               Fails(name) ==
                   DataRecord_validate(GetRecord(jdx, name), jret.block_values) # <<>>
               failing == {out[i] : i \in {k \in 1..Len(out) : Fails(out[k])}}
               absent == IF data_table_record(jdx).data.st # "list"
                         THEN {jdx.table_name} ELSE {}
               keys == {jret.validations[i].name : i \in 1..Len(jret.validations)}
           IN  /\ keys = failing \cup absent
               /\ \A i \in 1..Len(jret.validations) : jret.validations[i].errors # <<>>

\* the outcome of a render: whether it raised, and the text if it did not
Rendered(r) == [raised |-> r.raised, text |-> IF r.raised THEN "" ELSE r.text]

\* C14: to_string() of a block returns the text of repr(block) whether or
\* not validate() reports errors; the errors go to the warning only and do
\* not change, shorten or prevent the output (to_string fails only where the
\* render itself fails).
C14_ToStringIsRepr ==
    jret.op = "to_string" =>
        /\ Rendered(jret) = Rendered(SimpleJDX_repr(jdx))
        /\ ~jret.raised => (jret.warned <=> SimpleJDX_validate(jdx).validations # <<>>)

\* to_string has warned of errors and returned the full render
C14_Witness ==
    /\ jret.op = "to_string" /\ ~jret.raised /\ jret.warned
    /\ jret.text = SimpleJDX_repr(jdx).text
    /\ Len(SplitLines(jret.text)) > Len(SimpleJDX_validate(jdx).validations)

\* the number a string of digits denotes
RECURSIVE DigitsValue(_)
DigitsValue(s) ==
    IF s = "" THEN 0
    ELSE 10 * DigitsValue(Slice(s, 1, Len(s) - 1))
         + (CHOOSE n \in 0..9 : At(DigitChars, n + 1) = At(s, Len(s)))

IsDigits(s) == \A i \in 1..Len(s) : \E n \in 1..10 : At(DigitChars, n) = At(s, i)

\* the numbers of characters a directive of a date format reads
DirectiveWidths(d) ==
    CASE d = "Y" -> {4}
      [] d = "f" -> 1..6
      [] d = "z" -> {1, 5, 6}
      [] OTHER -> {1, 2}

\* the text is one a directive of a date format reads
DirectiveReads(d, text) ==
    CASE d = "Y" -> IsDigits(text) /\ DigitsValue(text) >= 1
      [] d = "m" -> IsDigits(text) /\ DigitsValue(text) \in 1..12
      [] d = "d" -> IsDigits(text) /\ DigitsValue(text) \in 1..31
      [] d = "H" -> IsDigits(text) /\ DigitsValue(text) \in 0..23
      [] d = "M" -> IsDigits(text) /\ DigitsValue(text) \in 0..59
      [] d = "S" -> IsDigits(text) /\ DigitsValue(text) \in 0..59
      [] d = "f" -> IsDigits(text)
      [] d = "z" -> \/ text = "Z"
                    \/ /\ At(text, 1) \in {"+", "-"}
                       /\ IsDigits(Slice(text, 2, 3))
                       /\ LET mm == Slice(text, IF At(text, 4) = ":" THEN 5 ELSE 4, Len(text))
                          IN  Len(mm) = 2 /\ IsDigits(mm) /\ DigitsValue(mm) \in 0..59
      [] OTHER -> FALSE

\* the days of a month of a year
DaysIn(year, month) ==
    IF month = 2
    THEN IF year % 4 = 0 /\ (year % 100 # 0 \/ year % 400 = 0) THEN 29 ELSE 28
    ELSE IF month \in {4, 6, 9, 11} THEN 30 ELSE 31

RECURSIVE MatchesFrom(_, _, _)
\* the whole of value is read by the format: a directive reads one of its
\* texts, a space of the format one or more spaces, any other character
\* itself
MatchesFrom(value, format, date) ==
    IF format = "" THEN value = "" /\ date[3] <= DaysIn(date[1], date[2])
    ELSE IF At(format, 1) = "%"
    THEN \E n \in DirectiveWidths(At(format, 2)) :
             /\ n <= Len(value)
             /\ DirectiveReads(At(format, 2), Slice(value, 1, n))
             /\ MatchesFrom(From(value, n + 1), From(format, 3),
                            CASE At(format, 2) = "Y" -> [date EXCEPT ![1] = DigitsValue(Slice(value, 1, n))]
                              [] At(format, 2) = "m" -> [date EXCEPT ![2] = DigitsValue(Slice(value, 1, n))]
                              [] At(format, 2) = "d" -> [date EXCEPT ![3] = DigitsValue(Slice(value, 1, n))]
                              [] OTHER -> date)
    ELSE IF At(format, 1) = " "
    THEN \E n \in 1..Len(value) :
             /\ \A i \in 1..n : At(value, i) = " "
             /\ MatchesFrom(From(value, n + 1), From(format, 2), date)
    ELSE At(value, 1) = At(format, 1)
         /\ MatchesFrom(From(value, 2), From(format, 2), date)

\* the value is a date of one of the allowed formats
MatchesAllowedFormat(value) ==
    \E i \in 1..Len(allowed_formats) : MatchesFrom(value, allowed_formats[i], <<1900, 1, 1>>)

\* the message of the date rule
DateError ==
    "Unexpected date-time format. Allowed formats: " \o ListRepr(allowed_formats)

\* the errors validate() has reported for the record name
ReportedErrors(validations, name) ==
    UNION {{validations[i].errors[e] : e \in 1..Len(validations[i].errors)} :
              i \in {k \in 1..Len(validations) : validations[k].name = name}}

\* C19: the long_date of SimpleJDX carries the date rule: when long_date is
\* a selected output field, validate() reports the error of the date rule
\* for a long_date that is of none of the five allowed formats and does not
\* report it for a long_date that is of one of them.
C19_LongDateRuleReported ==
    (/\ jret.op = "validate" /\ ~jret.raised
     /\ jdx.cls = "SimpleJDX"
     /\ Contains(get_output_data_records(jdx).names, "long_date")) =>
        (DateError \in ReportedErrors(jret.validations, "long_date")
            <=> ~MatchesAllowedFormat(ToStr(jdx.values["long_date"])))

-----------------------------------------------------------------------------
(* Calls on one CompoundJDX *)

MaxBlocks == 2

\* the block the compound is given
ChildKwargs == <<Arg("title", PyStr("a")), TableArg("xypoints", GoodTable(2))>>

\* another block, with another table
OtherChildKwargs == <<Arg("title", PyStr("b")), TableArg("xydata", GoodTable(1))>>

ChildKinds == {"block", "other_block", "no_block"}

\* what is put in the list of blocks: the block jdx, the other block, or a
\* value that is no block
Child(kind) ==
    CASE kind = "block" -> jdx
      [] kind = "other_block" -> SimpleJDXInit("SimpleJDX", TRUE, 4, OtherChildKwargs).self
      [] OTHER -> PyInt(5)

CompoundTitles == {PyStr("t"), PyNone}

\* a method of doc has returned or raised: r is its outcome and the compound
\* it leaves
Called(op, r) ==
    /\ doc' = r.self
    /\ jret' = [k \in DOMAIN r \ {"self"} |-> r[k]] @@ [op |-> op]

\* doc.add_block(block)
AddBlock(kind) ==
    /\ Len(doc.blocks) < MaxBlocks
    /\ Called("add_block", add_block(doc, Child(kind)))
    /\ UNCHANGED <<ldr, ret, tbl, tret, jdx, classes, heap>>

\* doc.blocks.append(block)
AppendBlock(kind) ==
    /\ Len(doc.blocks) < MaxBlocks
    /\ doc' = [doc EXCEPT !.blocks = Append(@, Child(kind))]
    /\ jret' = [op |-> "append", raised |-> FALSE]
    /\ UNCHANGED <<ldr, ret, tbl, tret, jdx, classes, heap>>

\* doc.blocks.pop()
PopBlock ==
    /\ doc.blocks # <<>>
    /\ doc' = [doc EXCEPT !.blocks = SubSeq(@, 1, Len(@) - 1)]
    /\ jret' = [op |-> "pop", raised |-> FALSE]
    /\ UNCHANGED <<ldr, ret, tbl, tret, jdx, classes, heap>>

\* str(doc)
CallCompoundStr ==
    /\ Called("compound_str", CompoundJDX_str(doc))
    /\ UNCHANGED <<ldr, ret, tbl, tret, jdx, classes, heap>>

\* repr(doc)
CallCompoundRepr ==
    /\ Called("compound_repr", CompoundJDX_repr(doc))
    /\ UNCHANGED <<ldr, ret, tbl, tret, jdx, classes, heap>>

\* doc.to_string()
CallCompoundToString ==
    /\ Called("compound_to_string", CompoundJDX_to_string(doc))
    /\ UNCHANGED <<ldr, ret, tbl, tret, jdx, classes, heap>>

\* a block, and a compound made with a title and up to MaxBlocks blocks
CompoundInit ==
    /\ classes = Classes
    /\ heap = NoHeap
    /\ jdx = SimpleJDXInit("SimpleJDX", TRUE, 4, ChildKwargs).self
    /\ \E title \in CompoundTitles, n \in 0..MaxBlocks :
           \E kinds \in [1..n -> ChildKinds] :
               doc = CompoundJDXInit(title, [i \in 1..n |-> Child(kinds[i])])
    /\ jret = NoCall
    /\ ldr = DataRecordInit("", "TEXT", NoChoices, <<>>, FALSE, PyNone)
    /\ ret = NoRet
    /\ tbl = NoTable
    /\ tret = NoRet

CompoundNext ==
    \/ \E kind \in ChildKinds : AddBlock(kind)
    \/ \E kind \in ChildKinds : AppendBlock(kind)
    \/ PopBlock
    \/ CallCompoundStr
    \/ CallCompoundRepr
    \/ CallCompoundToString

SpecCompound == CompoundInit /\ [][CompoundNext]_vars

\* the compound is made and then changed by add_block only
AddOnlyNext ==
    \/ \E kind \in ChildKinds : AddBlock(kind)
    \/ CallCompoundStr
    \/ CallCompoundRepr
    \/ CallCompoundToString

SpecAddOnly == CompoundInit /\ [][AddOnlyNext]_vars

-----------------------------------------------------------------------------
(* Properties of CompoundJDX *)

Renders == {"compound_str", "compound_repr", "compound_to_string"}

\* C1: in every render of a compound (str, repr, to_string) the BLOCKS value
\* of the header equals the number of blocks rendered in the same output,
\* after any construction, add_block calls and changes of the list of blocks.
\* The header ends at the first blank line; a blank line precedes every block
\* and the final ##END=.
C1_BlocksValueIsNumberRendered ==
    (jret.op \in Renders /\ ~jret.raised) =>
        LET lines == SplitLines(jret.text)
            blank == {i \in 1..Len(lines) : lines[i] = ""}
        IN  lines[Min(blank) - 1] = "##BLOCKS= " \o IntStr(Cardinality(blank) - 1)

RECURSIVE JoinParts(_)
\* the lines of parts with one blank line between consecutive parts
JoinParts(parts) ==
    IF Len(parts) = 1 THEN parts[1]
    ELSE parts[1] \o <<"">> \o JoinParts(Tail(parts))

\* every element of the list of blocks is a block
AllBlocks(self) == \A i \in 1..Len(self.blocks) : IsSimpleJDX(self.blocks[i])

\* C16: the full render of a compound of n >= 0 blocks is the text of the
\* header, then the full render of each block in the order of the list, then
\* the line ##END=, with exactly one blank line between consecutive parts;
\* the text of each block ends with the block's own ##END= line.
C16_CompoundRenderJoinsParts ==
    [][(/\ jret'.op \in {"compound_repr", "compound_to_string"}
        /\ ~jret'.raised
        /\ AllBlocks(doc)) =>
           LET header == SplitLines(BaseJDX_repr(doc).text)
               child == [i \in 1..Len(doc.blocks) |->
                            SplitLines(SimpleJDX_repr(doc.blocks[i]).text)]
               parts == <<header>> \o child \o <<(<<"##END=">>)>>
           IN  /\ SplitLines(jret'.text) = JoinParts(parts)
               /\ \A p \in 1..Len(parts) : \A k \in 1..Len(parts[p]) : parts[p][k] # ""
               /\ \A i \in 1..Len(child) : child[i][Len(child[i])] = "##END="]_vars

\* the full render of a compound of two different blocks: the second block
\* has the title b, the first the title a
C16_Witness ==
    /\ jret.op = "compound_repr" /\ ~jret.raised
    /\ Len(doc.blocks) = 2 /\ AllBlocks(doc)
    /\ doc.blocks[1].values["title"] = PyStr("a")
    /\ doc.blocks[2].values["title"] = PyStr("b")
    /\ Cardinality({i \in 1..Len(SplitLines(jret.text)) :
                        SplitLines(jret.text)[i] = "##END="}) = 3

\* C17: after any construction with initial blocks and any add_block calls,
\* every element of the list of blocks of a compound is a SimpleJDX; an
\* add_block that failed was given a value that is no SimpleJDX.
C17_ChildrenAreBlocks ==
    /\ AllBlocks(doc)
    /\ (jret.op = "add_block" /\ ~jret.raised) =>
           doc.values["block_count"] = PyInt(Len(doc.blocks))

\* add_block with a value that is no SimpleJDX fails and leaves the list of
\* blocks and block_count as they were; with a SimpleJDX it appends the
\* block and sets block_count to the new length
AddBlockChecksItsArgument ==
    [][jret'.op = "add_block" =>
          IF jret'.raised
          THEN doc' = doc
          ELSE /\ IsSimpleJDX(doc'.blocks[Len(doc'.blocks)])
               /\ SubSeq(doc'.blocks, 1, Len(doc.blocks)) = doc.blocks
               /\ doc'.values["block_count"] = PyInt(Len(doc.blocks) + 1)]_vars

-----------------------------------------------------------------------------
(* Objects: BaseJDX.__init__ gives each instance copies of the records and  *)
(* tables of its class.  An object is the slot its value or data is kept   *)
(* in; a class and a document refer to their objects by address.           *)

MaxDocs == 2

\* a DataRecord with its _value, a DataTableRecord with its _data
Object(value) == [value |-> value]

RECURSIVE ClassBody(_, _, _, _)
\* the body of a class: each record and table named is a new object, which
\* the class refers to by the name
ClassBody(objs, cls, names, attrs) ==
    IF names = <<>> THEN [objs |-> objs, attrs |-> attrs]
    ELSE ClassBody(Append(objs, Object(IF IsDataRecord(ClassAttr(cls, names[1]))
                                       THEN ClassAttr(cls, names[1]).record.value
                                       ELSE NoData)),
                   cls, Tail(names), attrs @@ (names[1] :> Len(objs) + 1))

\* the records and tables of a class, the records first
AttrNames(cls) == all_data_records(cls) \o all_data_table_records(cls)

\* the heap once the classes SimpleJDX and CompoundJDX are defined
ClassHeap ==
    LET s == ClassBody(<<>>, "SimpleJDX", AttrNames("SimpleJDX"), <<>>)
        c == ClassBody(s.objs, "CompoundJDX", AttrNames("CompoundJDX"), <<>>)
    IN  [objs |-> c.objs,
         template |-> [SimpleJDX |-> s.attrs, CompoundJDX |-> c.attrs],
         docs |-> <<>>]

\* the instance is given the object of the class itself
copy_shared(objs, addr) == [objs |-> objs, addr |-> addr]

\* copy(getattr(self.__class__, name)): a new object with the same slot
copy(objs, addr) == [objs |-> Append(objs, objs[addr]), addr |-> Len(objs) + 1]

RECURSIVE CopyAttrs(_, _, _, _)
\* the loop of BaseJDX.__init__:
\* setattr(self, name, copy(getattr(self.__class__, name)))
CopyAttrs(objs, class_attrs, names, attrs) ==
    IF names = <<>> \/ objs = <<>> THEN [objs |-> objs, attrs |-> attrs]
    ELSE LET c == copy(objs, class_attrs[names[1]])
         IN  CopyAttrs(c.objs, class_attrs, Tail(names), attrs @@ (names[1] :> c.addr))

RECURSIVE StoreValues(_, _, _, _)
\* getattr(self, name).value = values[name], for the names in turn
StoreValues(objs, attrs, names, values) ==
    IF names = <<>> THEN objs
    ELSE StoreValues([objs EXCEPT ![attrs[names[1]]].value = values[names[1]]],
                     attrs, Tail(names), values)

\* the records SimpleJDX.__init__ assigns a value to
AssignedBySimpleJDX(kwargs) ==
    LET Assigned(name) ==
            name \in Keys(kwargs) \cup {"jcamp_dx", "firstx", "lastx", "npoints",
                                       "xfactor", "yfactor"}
    IN  SelectSeq(all_data_records("SimpleJDX"), Assigned)

\* a constructor has run: the objects of the class copied, then the values
\* and the data of self stored in the copies of the records assigned
Constructed(self, assigned, tables) ==
    LET c == CopyAttrs(heap.objs, heap.template[self.cls], AttrNames(self.cls), <<>>)
        objs == StoreValues(StoreValues(c.objs, c.attrs, assigned, self.values),
                            c.attrs, tables,
                            [name \in DOMAIN self.tables |-> self.tables[name].data])
    IN  /\ heap' = [heap EXCEPT !.objs = objs,
                                !.docs = Append(@, [cls |-> self.cls, attrs |-> c.attrs])]
        /\ jret' = [op |-> "init", raised |-> FALSE, doc |-> Len(heap.docs) + 1,
                    name |-> ""]

\* SimpleJDX(**kwargs)
NewBlock(kwargs) ==
    /\ Len(heap.docs) < MaxDocs
    /\ Constructed(SimpleJDXInit("SimpleJDX", TRUE, 4, kwargs).self,
                   AssignedBySimpleJDX(kwargs),
                   SelectSeq(all_data_table_records("SimpleJDX"),
                             LAMBDA name : name \in Keys(kwargs)))
    /\ UNCHANGED <<ldr, ret, tbl, tret, jdx, doc, classes>>

\* CompoundJDX(title)
NewCompound(title) ==
    /\ Len(heap.docs) < MaxDocs
    /\ Constructed(CompoundJDXInit(title, <<>>), all_data_records("CompoundJDX"), <<>>)
    /\ UNCHANGED <<ldr, ret, tbl, tret, jdx, doc, classes>>

\* the record and the table that are assigned to after the construction
AssignedNames == {"title"}
AssignedTables == {"xypoints"}

\* getattr(d, name).value = value, d the document at place d
Assign(d, name, value) ==
    /\ name \in DOMAIN heap.docs[d].attrs
    /\ heap' = [heap EXCEPT !.objs[heap.docs[d].attrs[name]].value =
                    value_setter(ClassAttr(heap.docs[d].cls, name).cls, value)]
    /\ jret' = [op |-> "assign", raised |-> FALSE, doc |-> d, name |-> name]
    /\ UNCHANGED <<ldr, ret, tbl, tret, jdx, doc, classes>>

\* the data setter has checked the matrix: r is its outcome
Assigned(d, name, data, r) ==
    /\ heap' = IF r.raised THEN heap
               ELSE [heap EXCEPT !.objs[heap.docs[d].attrs[name]].value = Data(data.rows)]
    /\ jret' = [op |-> "assign_data", raised |-> r.raised, doc |-> d, name |-> name]

\* getattr(d, name).data = data
AssignData(d, name, data) ==
    /\ name \in DOMAIN heap.docs[d].attrs
    /\ Assigned(d, name, data, data_setter(ClassAttr(heap.docs[d].cls, name).record, data))
    /\ UNCHANGED <<ldr, ret, tbl, tret, jdx, doc, classes>>

\* the classes are defined, no document made yet
ShareInit ==
    /\ classes = Classes
    /\ heap = ClassHeap
    /\ jdx = NoBlock
    /\ doc = NoBlock
    /\ jret = NoCall
    /\ ldr = DataRecordInit("", "TEXT", NoChoices, <<>>, FALSE, PyNone)
    /\ ret = NoRet
    /\ tbl = NoTable
    /\ tret = NoRet

ShareNext ==
    \/ \E kwargs \in {ChildKwargs, OtherChildKwargs} : NewBlock(kwargs)
    \/ NewCompound(PyStr("t"))
    \/ \E d \in 1..Len(heap.docs), name \in AssignedNames : Assign(d, name, PyStr("x"))
    \/ \E d \in 1..Len(heap.docs), name \in AssignedTables,
           data \in {GoodTable(1), NoArg} : AssignData(d, name, data)

SpecShare == ShareInit /\ [][ShareNext]_vars

-----------------------------------------------------------------------------
(* Properties of the objects *)

\* the objects a class or a document refers to
Range(attrs) == {attrs[name] : name \in DOMAIN attrs}

\* the owners of objects: the classes and the documents
Owners(h) ==
    {h.template[cls] : cls \in DOMAIN h.template}
    \cup {h.docs[d].attrs : d \in 1..Len(h.docs)}

\* what is read from each record and table of the classes
ClassReads(h) ==
    [cls \in DOMAIN h.template |->
        [name \in DOMAIN h.template[cls] |-> h.objs[h.template[cls][name]].value]]

\* what is read from the record or table name of the document at place d
Read(h, d, name) == h.objs[h.docs[d].attrs[name]].value

\* no class and no document refers to one object twice, and no two of them
\* refer to one object
NoObjectShared ==
    \A a \in Owners(heap) :
        /\ Cardinality(Range(a)) = Cardinality(DOMAIN a)
        /\ \A b \in Owners(heap) : a # b => Range(a) \cap Range(b) = {}

\* an assignment changes what is read from the record or table assigned to
\* only, a construction nothing that was read before
OnlyAssignedChanges ==
    jret'.op \in {"init", "assign", "assign_data"} =>
        /\ ClassReads(heap') = ClassReads(heap)
        /\ \A d \in 1..Len(heap.docs) : \A name \in DOMAIN heap.docs[d].attrs :
               (jret'.op = "init" \/ d # jret'.doc \/ name # jret'.name) =>
                   (Read(heap', d, name) = Read(heap, d, name))

\* C18: no two documents share a record or table object, and none shares
\* one with its class: after any constructions and assignments of values or
\* table data, an assignment on one document changes no value read from any
\* other record or table of any document or class, and a construction
\* changes none of those that existed.
C18_NoSharedObjects == []NoObjectShared /\ [][OnlyAssignedChanges]_vars

\* the title of the first of two blocks was assigned to; the second block
\* and the class read what they read before
C18_Witness ==
    /\ jret.op = "assign" /\ jret.doc = 1 /\ jret.name = "title"
    /\ Len(heap.docs) = 2
    /\ heap.docs[1].cls = "SimpleJDX" /\ heap.docs[2].cls = "SimpleJDX"
    /\ Read(heap, 1, "title") = PyStr("x")
    /\ Read(heap, 2, "title") = PyStr("a")
    /\ ClassReads(heap)["SimpleJDX"]["title"] = PyNone

====
